---- MODULE Spec2Model ----
(***************************************************************************)
(* Price dashboard (Cloudflare worker + browser client).                   *)
(*                                                                         *)
(* The module holds one state machine per component of the program:        *)
(*   SpecBatch    the worker's POST /api/zoho/batch-update handler         *)
(*   SpecParse    the worker's sheet parsers                               *)
(*   SpecCombine  the worker's combineData                                 *)
(*   SpecPrice    the client's exchange rate, rules, overrides and prices  *)
(*   SpecDiff     the worker's GET /api/debug/sku-diff handler             *)
(*   SpecGate     the worker's fetch up to the routes (preflight, auth)    *)
(* Each specification moves its own variables and leaves the others at     *)
(* their initial values.                                                   *)
(***************************************************************************)
EXTENDS Integers, Sequences, FiniteSets, TLC

VARIABLES
    \* ---- worker: POST /api/zoho/batch-update
    pc,            \* position of the handler: idle, token, search, update, done
    body,          \* the request body as received
    items,         \* body.items once destructured
    accessToken,   \* the token getZohoAccessToken returned
    idx,           \* 1-based position of the for..of loop
    zohoItem,      \* the item zohoSearchItemBySku found for items[idx]
    results,       \* the results array
    response,      \* the Response returned (NoResponse until the handler returns)
    calls,         \* every external call the handler has made, in order
    \* ---- worker: sheet parsers
    rows,          \* the grid handed to a parser (row 1 is the header row)
    parser,        \* which parser ran: none, trade, digital
    parsed,        \* what the parser returned
    \* ---- worker: combineData
    tradeIdData,   \* first argument of combineData
    digitalIdData, \* second argument of combineData
    combined,      \* what combineData returned (None before the call)
    \* ---- client: pricing state
    loaded,        \* the DOMContentLoaded listener has run
    rateData,      \* what fetchExchangeRate resolved to
    exchangeRate,
    productData,
    identitySelections,
    identityOverrides,
    roundingValue,
    lastOp,        \* the last thing that happened to the page (observation only)
    \* ---- worker: GET /api/debug/sku-diff
    diffTrade,     \* the SKUs of parseTradeIdSheet's items, in sheet order
    diffDigital,   \* the SKUs of parseDigitalIdSheet's items, in sheet order
    diffResponse,  \* the JSON the handler answered with
    \* ---- worker: fetch(request), the gate before every route
    request,       \* method, path and Authorization header of the request
    gate,          \* position of fetch: idle, auth, route, done
    answer,        \* status of the Response (0: none yet)
    ran,           \* what ran behind the gate: nothing, an API handler, the static assets
    pushChecked,
    pushPc,
    pushItems,
    pushResponse,
    zohoUpdateTimestamps,
    storedLogs,
    zohoStatus,
    clock,
    pushCount,
    joinSite,
    fetched,
    joinOrder,
    joinResult,
    wPage,
    wBatch,
    wRow,
    wRowDisabled,
    rwPc,
    rwSkus,
    rwIndex,
    rwCount,
    rewrittenData,
    rwClock,
    rwLast,
    stPc,
    stSnapshot,
    shopifyStockData,
    zohoStockData,
    remoteStock,
    zohoStockOverrides,
    stMatch,
    lastMatched,
    syPc,
    syToken,
    syItems,
    syIndex,
    successItems,
    failedItems,
    syncedAt,
    syRequested,
    syClearedAt,
    syClock,
    descDataLoaded,
    descriptionsData,
    descCalls,
    descPending,
    descFetches

batchVars   == <<pc, body, items, accessToken, idx, zohoItem, results, response, calls>>
parseVars   == <<rows, parser, parsed>>
combineVars == <<tradeIdData, digitalIdData, combined>>
priceVars   == <<loaded, rateData, exchangeRate, productData, identitySelections,
                 identityOverrides, roundingValue, lastOp>>
diffVars    == <<diffTrade, diffDigital, diffResponse>>
gateVars    == <<request, gate, answer, ran>>
pushVars == <<pushChecked, pushPc, pushItems, pushResponse, zohoUpdateTimestamps, storedLogs, zohoStatus, clock, pushCount>>
joinVars == <<joinSite, fetched, joinOrder, joinResult>>
writeVars == <<wPage, wBatch, wRow, wRowDisabled>>
rewriteVars == <<rwPc, rwSkus, rwIndex, rwCount, rewrittenData, rwClock, rwLast>>
stockVars == <<stPc, stSnapshot, shopifyStockData, zohoStockData, remoteStock, zohoStockOverrides, stMatch, lastMatched>>
syncVars == <<syPc, syToken, syItems, syIndex, successItems, failedItems, syncedAt, syRequested, syClearedAt, syClock>>
descVars == <<descDataLoaded, descriptionsData, descCalls, descPending, descFetches>>
vars        == <<batchVars, parseVars, combineVars, priceVars, diffVars, gateVars, pushVars, joinVars, writeVars, rewriteVars, stockVars, syncVars, descVars>>

notBatch   == <<parseVars, combineVars, priceVars, diffVars, gateVars, pushVars, joinVars, writeVars, rewriteVars, stockVars, syncVars, descVars>>
notParse   == <<batchVars, combineVars, priceVars, diffVars, gateVars, pushVars, joinVars, writeVars, rewriteVars, stockVars, syncVars, descVars>>
notCombine == <<batchVars, parseVars, priceVars, diffVars, gateVars, pushVars, joinVars, writeVars, rewriteVars, stockVars, syncVars, descVars>>
notPrice   == <<batchVars, parseVars, combineVars, diffVars, gateVars, pushVars, joinVars, writeVars, rewriteVars, stockVars, syncVars, descVars>>
notDiff    == <<batchVars, parseVars, combineVars, priceVars, gateVars, pushVars, joinVars, writeVars, rewriteVars, stockVars, syncVars, descVars>>
notGate    == <<batchVars, parseVars, combineVars, priceVars, diffVars, pushVars, joinVars, writeVars, rewriteVars, stockVars, syncVars, descVars>>
notPush == <<batchVars, parseVars, combineVars, priceVars, diffVars, gateVars, joinVars, writeVars, rewriteVars, stockVars, syncVars, descVars>>
notJoin == <<batchVars, parseVars, combineVars, priceVars, diffVars, gateVars, pushVars, writeVars, rewriteVars, stockVars, syncVars, descVars>>
notWrites == <<batchVars, parseVars, combineVars, priceVars, diffVars, gateVars, pushVars, joinVars, rewriteVars, stockVars, syncVars, descVars>>
notRewrite == <<batchVars, parseVars, combineVars, priceVars, diffVars, gateVars, pushVars, joinVars, writeVars, stockVars, syncVars, descVars>>
notStock == <<batchVars, parseVars, combineVars, priceVars, diffVars, gateVars, pushVars, joinVars, writeVars, rewriteVars, syncVars, descVars>>
notSync == <<batchVars, parseVars, combineVars, priceVars, diffVars, gateVars, pushVars, joinVars, writeVars, rewriteVars, stockVars, descVars>>
notDesc == <<batchVars, parseVars, combineVars, priceVars, diffVars, gateVars, pushVars, joinVars, writeVars, rewriteVars, stockVars, syncVars>>

(***************************************************************************)
(* JavaScript values that are not numbers, strings or objects.             *)
(***************************************************************************)
Undefined == "undefined"
None      == "none"

\* No request body received yet, no Response returned yet.
NoBody     == [kind |-> "none"]
NoResponse == [status |-> 0, body |-> [pending |-> TRUE], headers |-> "none"]

\* ---- bounds
MaxItems == 3
MaxRows  == 2
MaxList  == 2
MaxSkus  == 3
MaxPushes == 1

(***************************************************************************)
(* POST /api/zoho/batch-update                                             *)
(***************************************************************************)
SKUS == {"A", "B"}

\* The items a client may put in a batch; the same SKU may be sent twice.
ItemPool ==
    { [sku |-> "A", costPrice |-> 10, sellingPrice |-> 12],
      [sku |-> "B", costPrice |-> 20, sellingPrice |-> 25],
      [sku |-> "A", costPrice |-> 11, sellingPrice |-> 13] }

ItemLists == UNION { [1..n -> ItemPool] : n \in 0..MaxItems }

\* Request bodies: unparseable JSON, an object without items, items that is
\* not an array, and item arrays of every length from 0.
Bodies ==
    { [kind |-> "badjson"], [kind |-> "noitems"], [kind |-> "notarray"] }
    \cup { [kind |-> "items", items |-> l] : l \in ItemLists }

Tokens == {"tok1", "tok2"}

corsHeaders == "cors"

JsonResponse(status, payload) ==
    [status |-> status, body |-> payload, headers |-> corsHeaders]

\* The guard without its length test.
ItemsRejected_NoLengthTest(b) ==
    \/ b.kind = "noitems"
    \/ b.kind = "notarray"

\* if (!items || !Array.isArray(items) || items.length === 0)
ItemsRejected(b) ==
    \/ b.kind = "noitems"
    \/ b.kind = "notarray"
    \/ (b.kind = "items" /\ Len(b.items) = 0)

\* The outer catch: one top-level error, status 500.
OuterCatch(message) == JsonResponse(500, [error |-> message])

\* getZohoAccessToken: the token endpoint's answer is either an error object
\* (data.error is thrown) or carries access_token.
TokenThrows_Never(ans) == FALSE

TokenThrows(ans) == ans.kind = "error"

TokenAnswers ==
    { [kind |-> "error", error |-> "invalid_client"] }
    \cup { [kind |-> "ok", access_token |-> t] : t \in Tokens }

\* zohoSearchItemBySku: throws unless data.code is 0, else the first item or null.
SearchAnswers ==
    { [kind |-> "throw", message |-> "Failed to search item"],
      [kind |-> "null"],
      [kind |-> "item", item_id |-> "id1"] }

\* zohoUpdateItemPrices: throws unless data.code is 0.
UpdateAnswers ==
    { [kind |-> "throw", message |-> "Failed to update item"],
      [kind |-> "ok"] }

\* A failure branch that forgets its results.push.
PushFailure_Dropped(res, item, message) == res

\* results.push({ sku, success: false, error })
PushFailure(res, item, message) ==
    Append(res, [sku |-> item.sku, success |-> FALSE, error |-> message])

\* results.push({ sku, success: true })
PushSuccess(res, item) ==
    Append(res, [sku |-> item.sku, success |-> TRUE])

\* A loop that stops at the first failed item.
LoopHasNext_AbortOnFailure(i, ok) == ok /\ i < Len(items)

\* The for..of loop moves to the next item whatever the item's outcome was.
LoopHasNext(i, ok) == i < Len(items)

\* A loop that acquires the token anew before every further item.
AfterIteration_ReacquiresToken(i) == "token"

\* Where the next iteration starts: at the item's search, the token having
\* been acquired once before the loop.
AfterIteration(i) == "search"

\* A loop that tries a failed item again.
NextIndex_RetriesFailure(i, ok) == IF ok THEN i + 1 ELSE i

\* for (const item of items): the next iteration takes the next item,
\* whatever the outcome of this one.
NextIndex(i, ok) == i + 1

\* End of one loop iteration with the results array res: either the next
\* iteration starts or the handler returns { results }.
EndIteration(res, ok) ==
    /\ results' = res
    /\ zohoItem' = None
    /\ IF LoopHasNext(idx, ok)
       THEN /\ idx' = NextIndex(idx, ok)
            /\ pc' = AfterIteration(idx)
            /\ UNCHANGED response
       ELSE /\ idx' = idx
            /\ pc' = "done"
            /\ response' = JsonResponse(200, [results |-> res])

BatchInit ==
    /\ pc = "idle"
    /\ body = NoBody
    /\ items = <<>>
    /\ accessToken = None
    /\ idx = 0
    /\ zohoItem = None
    /\ results = <<>>
    /\ response = NoResponse
    /\ calls = <<>>

\* const body = await request.json(); const { items } = body; the guard.
BatchReceive ==
    /\ pc = "idle"
    /\ \E b \in Bodies :
        /\ body' = b
        /\ IF b.kind = "badjson"
           THEN /\ response' = OuterCatch("Unexpected token")
                /\ pc' = "done"
                /\ UNCHANGED items
           ELSE IF ItemsRejected(b)
           THEN /\ response' = JsonResponse(400, [error |-> "Items array is required"])
                /\ pc' = "done"
                /\ UNCHANGED items
           ELSE /\ items' = b.items
                /\ pc' = "token"
                /\ UNCHANGED response
    /\ UNCHANGED <<accessToken, idx, zohoItem, results, calls>>
    /\ UNCHANGED notBatch

\* const accessToken = await getZohoAccessToken(env); const results = [];
BatchToken ==
    /\ pc = "token"
    /\ \E ans \in TokenAnswers :
        /\ calls' = Append(calls, [op |-> "token", answer |-> ans.kind,
                                   access_token |-> IF ans.kind = "ok"
                                                    THEN ans.access_token ELSE Undefined])
        /\ IF TokenThrows(ans)
           THEN /\ response' = OuterCatch(ans.error)
                /\ pc' = "done"
                /\ UNCHANGED <<accessToken, idx, results>>
           ELSE /\ accessToken' = IF ans.kind = "ok" THEN ans.access_token ELSE Undefined
                /\ results' = <<>>
                /\ IF Len(items) > 0
                   THEN /\ idx' = 1
                        /\ pc' = "search"
                        /\ UNCHANGED response
                   ELSE /\ idx' = idx
                        /\ pc' = "done"
                        /\ response' = JsonResponse(200, [results |-> <<>>])
    /\ UNCHANGED <<body, items, zohoItem>>
    /\ UNCHANGED notBatch

\* const zohoItem = await zohoSearchItemBySku(accessToken, env.ZOHO_ORG_ID, item.sku);
BatchSearch ==
    /\ pc = "search"
    /\ \E ans \in SearchAnswers :
        /\ calls' = Append(calls, [op |-> "search", index |-> idx, sku |-> items[idx].sku,
                                   token |-> accessToken, answer |-> ans.kind])
        /\ CASE ans.kind = "throw" ->
                    EndIteration(PushFailure(results, items[idx], ans.message), FALSE)
             [] ans.kind = "null" ->
                    EndIteration(PushFailure(results, items[idx], "Item not found"), FALSE)
             [] ans.kind = "item" ->
                    /\ zohoItem' = ans.item_id
                    /\ pc' = "update"
                    /\ UNCHANGED <<idx, results, response>>
    /\ UNCHANGED <<body, items, accessToken>>
    /\ UNCHANGED notBatch

\* await zohoUpdateItemPrices(accessToken, orgId, zohoItem.item_id, costPrice, sellingPrice);
BatchUpdate ==
    /\ pc = "update"
    /\ \E ans \in UpdateAnswers :
        /\ calls' = Append(calls, [op |-> "update", index |-> idx, sku |-> items[idx].sku,
                                   token |-> accessToken, answer |-> ans.kind,
                                   itemId |-> zohoItem,
                                   costPrice |-> items[idx].costPrice,
                                   sellingPrice |-> items[idx].sellingPrice])
        /\ IF ans.kind = "throw"
           THEN EndIteration(PushFailure(results, items[idx], ans.message), FALSE)
           ELSE EndIteration(PushSuccess(results, items[idx]), TRUE)
    /\ UNCHANGED <<body, items, accessToken>>
    /\ UNCHANGED notBatch

BatchNext ==
    \/ BatchReceive
    \/ BatchToken
    \/ BatchSearch
    \/ BatchUpdate

(***************************************************************************)
(* Properties of POST /api/zoho/batch-update                               *)
(***************************************************************************)
TokenCalls  == { k \in DOMAIN calls : calls[k].op = "token" }
ItemCalls   == { k \in DOMAIN calls : calls[k].op \in {"search", "update"} }
SearchOf(i) == { k \in DOMAIN calls : calls[k].op = "search" /\ calls[k].index = i }
UpdateOf(i) == { k \in DOMAIN calls : calls[k].op = "update" /\ calls[k].index = i }

TokenSucceeded == \E k \in TokenCalls : calls[k].answer = "ok"
TokenFailed    == \E k \in TokenCalls : calls[k].answer = "error"

Responded    == pc = "done" /\ response.status # 0
HasResults   == Responded /\ "results" \in DOMAIN response.body
NonEmptyList == body.kind = "items" /\ Len(body.items) > 0
EmptyList    == body.kind = "items" /\ Len(body.items) = 0

\* C1: a request with a non-empty item list whose token acquisition succeeded
\* is answered with a results list that has one entry per input item, in input
\* order (results[i].sku = items[i].sku), whichever items failed; while the
\* loop runs the results array holds one entry per finished item.
C1_ResultsMatchItems ==
    (NonEmptyList /\ TokenSucceeded) =>
        /\ Len(results) <= Len(body.items)
        /\ \A i \in 1..Len(results) : results[i].sku = body.items[i].sku
        /\ pc \in {"search", "update"} => Len(results) = idx - 1
        /\ pc = "done" =>
              /\ HasResults
              /\ response.body.results = results
              /\ Len(response.body.results) = Len(body.items)

\* A finished batch of three items in which items failed in three ways.
C1_Witness ==
    /\ HasResults
    /\ Len(body.items) = 3
    /\ \E i, j, k \in 1..3 :
        /\ response.body.results[i].success
        /\ ~response.body.results[j].success
        /\ response.body.results[j].error = "Item not found"
        /\ ~response.body.results[k].success
        /\ response.body.results[k].error = "Failed to update item"

\* What the handler records for item i, given the answers to item i's own calls.
ExpectedResult(i) ==
    LET s == calls[CHOOSE k \in SearchOf(i) : TRUE]
        sku == body.items[i].sku
    IN  CASE s.answer = "throw" ->
                 [sku |-> sku, success |-> FALSE, error |-> "Failed to search item"]
          [] s.answer = "null" ->
                 [sku |-> sku, success |-> FALSE, error |-> "Item not found"]
          [] s.answer = "item" ->
                 IF calls[CHOOSE k \in UpdateOf(i) : TRUE].answer = "ok"
                 THEN [sku |-> sku, success |-> TRUE]
                 ELSE [sku |-> sku, success |-> FALSE, error |-> "Failed to update item"]

\* C2: a failed item is recorded as that item's result with success = FALSE and
\* an error message, and every item of the list is attempted whatever happened
\* to the items before it: each is searched once, updated once with its own
\* prices exactly when its search found it, and its result is decided by the
\* answers to its own calls alone.
C2_FailureDoesNotAbort ==
    (NonEmptyList /\ TokenSucceeded) =>
        /\ \A i \in 1..Len(results) :
            /\ Cardinality(SearchOf(i)) = 1
            /\ Cardinality(UpdateOf(i)) =
                  (IF calls[CHOOSE k \in SearchOf(i) : TRUE].answer = "item" THEN 1 ELSE 0)
            /\ \A k \in UpdateOf(i) :
                  /\ calls[k].costPrice = body.items[i].costPrice
                  /\ calls[k].sellingPrice = body.items[i].sellingPrice
            /\ results[i] = ExpectedResult(i)
            /\ ~results[i].success => results[i].error # ""
        /\ pc = "done" =>
              /\ Len(results) = Len(body.items)
              /\ \A i \in 1..Len(body.items) : SearchOf(i) # {}

\* Three items, the second not found remotely, the first and third applied.
C2_Witness ==
    /\ HasResults
    /\ Len(body.items) = 3
    /\ response.body.results[1].success
    /\ ~response.body.results[2].success
    /\ response.body.results[2].error = "Item not found"
    /\ response.body.results[3].success
    /\ \E k \in UpdateOf(3) : calls[k].answer = "ok"

\* C3: when the token cannot be acquired, no search and no update call is made
\* for any item, and the answer is a single top-level error without a results
\* list; an answer that carries per-item errors has a results list and no
\* top-level error.
C3_TokenFailureAbortsBatch ==
    /\ TokenFailed =>
          /\ ItemCalls = {}
          /\ results = <<>>
          /\ Responded
          /\ response.status = 500
          /\ DOMAIN response.body = {"error"}
    /\ HasResults => DOMAIN response.body = {"results"}

\* The token endpoint answered with an error for a batch of three items.
C3_Witness ==
    /\ TokenFailed
    /\ Responded
    /\ Len(body.items) = 3

\* C4 as stated: an empty item list is answered with an empty result list, not
\* an error, and no external system is contacted.
C4_EmptyListReturnsEmptyResults ==
    (EmptyList /\ pc = "done") =>
        /\ response.body = [results |-> <<>>]
        /\ calls = <<>>

\* C4 amended: an empty item list is answered with the single top-level error
\* 'Items array is required' (status 400, no results list), and no external
\* system is contacted: no token acquisition and no item call.
C4_EmptyListRejected ==
    (EmptyList /\ pc # "idle") =>
        /\ pc = "done"
        /\ response = JsonResponse(400, [error |-> "Items array is required"])
        /\ calls = <<>>

\* An empty item list has been submitted and answered.
C4_Witness == EmptyList /\ Responded

\* The request passed the handler's validation of its body.
Accepted == body.kind = "items" /\ ~ItemsRejected(body)

\* C17: in every batch-update request that passes validation the Zoho access
\* token is acquired exactly once, as the handler's first external call and
\* before the first item's search, and every search and update call of the
\* batch carries the token that this acquisition returned; no request
\* acquires it more than once.
C17_TokenAcquiredOnce ==
    /\ Cardinality(TokenCalls) <= 1
    /\ (Accepted /\ pc # "token") =>
          /\ Cardinality(TokenCalls) = 1
          /\ calls[1].op = "token"
    /\ \A k \in ItemCalls :
          /\ k > 1
          /\ calls[1].op = "token"
          /\ calls[1].answer = "ok"
          /\ calls[k].token = calls[1].access_token
          /\ calls[k].token \in Tokens

\* A batch of three items was answered: every item was searched and two were
\* updated, all with the token tok2 of the one acquisition.
C17_Witness ==
    /\ Responded
    /\ Len(items) = 3
    /\ Cardinality(TokenCalls) = 1
    /\ calls[1].access_token = "tok2"
    /\ \A i \in 1..3 : SearchOf(i) # {}
    /\ UpdateOf(1) # {} /\ UpdateOf(3) # {}
    /\ \A k \in ItemCalls : calls[k].token = "tok2"

\* C18: the items are processed one at a time in input order: every external
\* call for an item is made when the results of all earlier items, and of no
\* later one, are recorded; an item's update call directly follows its own
\* search that found the item; and no item is searched or updated more than
\* once in a batch.
C18_SequentialNoRetry ==
    /\ \A k \in ItemCalls :
          /\ calls[k].index \in 1..Len(items)
          /\ calls[k].sku = items[calls[k].index].sku
          /\ calls[k].index <= Len(results) + 1
          /\ \A l \in ItemCalls : k < l => calls[k].index <= calls[l].index
    /\ pc \in {"search", "update"} => Len(results) = idx - 1
    /\ \A i \in 1..Len(items) :
          /\ Cardinality(SearchOf(i)) <= 1
          /\ Cardinality(UpdateOf(i)) <= 1
          /\ \A k \in UpdateOf(i) :
                /\ k - 1 \in SearchOf(i)
                /\ calls[k - 1].answer = "item"
                /\ calls[k].itemId = "id1"
          /\ \A k \in SearchOf(i) :
                (calls[k].answer # "item" /\ k < Len(calls)) => calls[k + 1].index = i + 1

\* A batch of three items was answered after item 1 failed in its search,
\* item 2 failed in its update and item 3 succeeded: five item calls in all.
C18_Witness ==
    /\ Responded
    /\ Len(items) = 3
    /\ Len(results) = 3
    /\ Cardinality(ItemCalls) = 5
    /\ \E k \in SearchOf(1) : calls[k].answer = "throw"
    /\ \E k \in UpdateOf(2) : calls[k].answer = "throw"
    /\ \E k \in UpdateOf(3) : calls[k].answer = "ok"
    /\ ~results[1].success /\ ~results[2].success /\ results[3].success

(***************************************************************************)
(* JavaScript numbers.  A number is an exact fraction n/d (d > 0, lowest    *)
(* terms); NaN, Infinity and null are values of their own.                  *)
(***************************************************************************)
RECURSIVE GCD(_, _)
GCD(a, b) == IF b = 0 THEN a ELSE GCD(b, a % b)

Abs(x) == IF x < 0 THEN -x ELSE x

Num(n, d) ==
    LET g == GCD(Abs(n), Abs(d))
        s == IF d < 0 THEN -1 ELSE 1
    IN  [t |-> "num", n |-> (s * n) \div g, d |-> (s * d) \div g]

JSNull     == [t |-> "null"]
JSUndef    == [t |-> "undefined"]
NaN        == [t |-> "NaN"]
Infinity   == [t |-> "Infinity"]
IsNum(v)   == v.t = "num"
IntNum(k)  == Num(k, 1)

\* ToBoolean of a number, NaN, Infinity, null or undefined: 0 and NaN are
\* falsy, as null and undefined are.
Truthy(v) == (IsNum(v) /\ v.n # 0) \/ v.t = "Infinity"

\* v == null (loose equality: null or undefined)
IsNullish(v) == v.t \in {"null", "undefined"}

\* ToNumber: null is 0, undefined is NaN.
ToNumber(v) ==
    CASE v.t = "null"      -> Num(0, 1)
      [] v.t = "undefined" -> NaN
      [] OTHER             -> v

\* a / b on the values of the model (amounts are not negative, so a division
\* by zero gives NaN or +Infinity).
JSDiv(a, b) ==
    LET x == ToNumber(a)
        y == ToNumber(b)
    IN  CASE x.t = "NaN" \/ y.t = "NaN" -> NaN
          [] x.t = "Infinity" -> IF y.t = "Infinity" THEN NaN ELSE Infinity
          [] y.t = "Infinity" -> Num(0, 1)
          [] y.n = 0 -> IF x.n = 0 THEN NaN ELSE Infinity
          [] OTHER -> Num(x.n * y.d, x.d * y.n)

\* a * b
JSMul(a, b) ==
    LET x == ToNumber(a)
        y == ToNumber(b)
    IN  CASE x.t = "NaN" \/ y.t = "NaN" -> NaN
          [] x.t = "Infinity" -> IF IsNum(y) /\ y.n = 0 THEN NaN ELSE Infinity
          [] y.t = "Infinity" -> IF x.n = 0 THEN NaN ELSE Infinity
          [] OTHER -> Num(x.n * y.n, x.d * y.d)

\* a + b
JSAdd(a, b) ==
    LET x == ToNumber(a)
        y == ToNumber(b)
    IN  CASE x.t = "NaN" \/ y.t = "NaN" -> NaN
          [] x.t = "Infinity" \/ y.t = "Infinity" -> Infinity
          [] OTHER -> Num(x.n * y.d + y.n * x.d, x.d * y.d)

\* a > b for numbers; a comparison with NaN is false.
JSGreater(a, b) ==
    LET x == ToNumber(a)
        y == ToNumber(b)
    IN  CASE x.t = "NaN" \/ y.t = "NaN" -> FALSE
          [] x.t = "Infinity" -> y.t # "Infinity"
          [] y.t = "Infinity" -> FALSE
          [] OTHER -> x.n * y.d > y.n * x.d

\* Math.floor in the place of Math.round.
MathRound_Floor(v) ==
    LET x == ToNumber(v)
    IN  IF IsNum(x) THEN Num(x.n \div x.d, 1) ELSE x

\* Math.round: the nearest integer, a tie going up.
MathRound(v) ==
    LET x == ToNumber(v)
    IN  IF IsNum(x) THEN Num((2 * x.n + x.d) \div (2 * x.d), 1) ELSE x

\* The idiom  v || null  as written.
OrNull(v) == IF Truthy(v) THEN v ELSE JSNull

(***************************************************************************)
(* Strings that are parsed are sequences of one-character tokens; the       *)
(* currency signs are written pound, dollar, euro.                          *)
(***************************************************************************)
Digits == {"0", "1", "2", "3", "4", "5", "6", "7", "8", "9"}

DigitVal(c) ==
    CASE c = "0" -> 0 [] c = "1" -> 1 [] c = "2" -> 2 [] c = "3" -> 3 [] c = "4" -> 4
      [] c = "5" -> 5 [] c = "6" -> 6 [] c = "7" -> 7 [] c = "8" -> 8 [] c = "9" -> 9

\* A cell the row does not have: row[idx] is undefined.
UndefinedCell == <<"#undefined">>

RECURSIVE SkipWs(_)
SkipWs(s) == IF s # <<>> /\ s[1] = " " THEN SkipWs(Tail(s)) ELSE s

RECURSIVE DigitRun(_)
\* Number of leading digits of s.
DigitRun(s) == IF s # <<>> /\ s[1] \in Digits THEN 1 + DigitRun(Tail(s)) ELSE 0

RECURSIVE DigitsValue(_)
DigitsValue(s) ==
    IF s = <<>> THEN 0 ELSE 10 * DigitsValue(SubSeq(s, 1, Len(s) - 1)) + DigitVal(s[Len(s)])

RECURSIVE Pow10(_)
Pow10(k) == IF k = 0 THEN 1 ELSE 10 * Pow10(k - 1)

\* String.prototype.trim
RECURSIVE TrimEnd(_)
TrimEnd(s) == IF s # <<>> /\ s[Len(s)] = " " THEN TrimEnd(SubSeq(s, 1, Len(s) - 1)) ELSE s

Trim(s) == TrimEnd(SkipWs(s))

\* parseFloat: leading white space is skipped, then the longest prefix that is
\* a decimal literal (sign, digits, fraction) is the value; NaN when there is
\* none.  parseFloat(undefined) parses the string "undefined": NaN.
\* (The cells of the model hold no exponent and no "Infinity".)
parseFloat(cell) ==
    IF cell = UndefinedCell THEN NaN
    ELSE
    LET t     == SkipWs(cell)
        sgn   == IF t # <<>> /\ t[1] = "-" THEN -1 ELSE 1
        u     == IF t # <<>> /\ t[1] \in {"-", "+"} THEN Tail(t) ELSE t
        k     == DigitRun(u)
        rest  == SubSeq(u, k + 1, Len(u))
        f     == IF rest # <<>> /\ rest[1] = "." THEN DigitRun(Tail(rest)) ELSE 0
        whole == DigitsValue(SubSeq(u, 1, k))
        frac  == IF f = 0 THEN 0 ELSE DigitsValue(SubSeq(rest, 2, f + 1))
    IN  IF k = 0 /\ f = 0 THEN NaN
        ELSE Num(sgn * (whole * Pow10(f) + frac), Pow10(f))

\* parseInt (radix 10): white space, sign, digits; NaN when there is no digit.
parseInt(cell) ==
    IF cell = UndefinedCell THEN NaN
    ELSE
    LET t   == SkipWs(cell)
        sgn == IF t # <<>> /\ t[1] = "-" THEN -1 ELSE 1
        u   == IF t # <<>> /\ t[1] \in {"-", "+"} THEN Tail(t) ELSE t
        k   == DigitRun(u)
    IN  IF k = 0 THEN NaN ELSE IntNum(sgn * DigitsValue(SubSeq(u, 1, k)))

\* .replace(/[pound dollar euro ,]/g, "")
CurrencyChars == {"pound", "dollar", "euro", ","}

StripCurrency(s) == SelectSeq(s, LAMBDA c : c \notin CurrencyChars)

\* row[idx]: idx is findIndex's result plus one, 0 when no header matched
\* (row[-1] is undefined, as is a cell past the end of a short row).
CellAt(row, i) == IF i \in 1..Len(row) THEN row[i] ELSE UndefinedCell

\* cell || ''
OrEmpty(cell) == IF cell = UndefinedCell THEN <<>> ELSE cell

(***************************************************************************)
(* Sheet parsers: parseTradeIdSheet, parseDigitalIdSheet                    *)
(***************************************************************************)
\* String.prototype.toLowerCase on the header cells of the model.
toLowerCase(h) ==
    CASE h = "Product ID"   -> "product id"
      [] h = "Product Name" -> "product name"
      [] h = "Price"        -> "price"
      [] h = "PRICE"        -> "price"
      [] h = "SKU"          -> "sku"
      [] h = "Stock"        -> "stock"
      [] OTHER              -> h

\* String.prototype.includes on the lower-cased header cells of the model.
Includes(h, sub) == h = sub \/ <<h, sub>> \in { <<"supplier product id", "product id">> }

\* Array.prototype.findIndex, plus one, given the callback's verdict on each
\* header: the first position whose verdict is true, 0 when there is none.
findIndex(verdicts) ==
    IF \E i \in 1..Len(verdicts) : verdicts[i]
    THEN CHOOSE i \in 1..Len(verdicts) :
             verdicts[i] /\ \A k \in 1..(i - 1) : ~verdicts[k]
    ELSE 0

\* headers.findIndex(h => h.toLowerCase() === name)
IndexOfHeader(headers, name) ==
    findIndex([i \in 1..Len(headers) |-> toLowerCase(headers[i]) = name])

\* headers.findIndex(h => h.toLowerCase().includes(text))
IndexOfHeaderIncluding(headers, text) ==
    findIndex([i \in 1..Len(headers) |-> Includes(toLowerCase(headers[i]), text)])

\* Header rows of the sheets: the Trade-Id layout, the Digital Id layout, an
\* upper-case variant, and sheets that lack the price or the SKU column.
HeaderRows ==
    { <<"Product ID", "Product Name", "Price", "SKU", "Stock">>,
      <<"name", "price", "sku", "description">>,
      <<"SKU", "PRICE">>,
      <<"sku">>,
      <<"supplier product id", "price">> }

SkuCells == { <<>>, <<"A">>, <<"B">> }

CostCells ==
    { <<>>,
      <<"x">>,
      <<"0">>,
      <<"-", "1">>,
      <<"-", "1", ".", "0">>,
      <<"5">>,
      <<" ", "2", ".", "5", "x">>,
      <<"pound", "-", "1">>,
      <<"pound", "1", ",", "2", "5", "0", ".", "5", "0">> }

\* The Sheets API leaves out the trailing empty cells of a row.
RECURSIVE DropTrailingEmpty(_)
DropTrailingEmpty(row) ==
    IF row # <<>> /\ row[Len(row)] = <<>>
    THEN DropTrailingEmpty(SubSeq(row, 1, Len(row) - 1))
    ELSE row

\* A data row under the header row: skuCell in the SKU column, costCell in the
\* price column, fixed text in the other columns.
DataRow(headers, skuCell, costCell) ==
    DropTrailingEmpty(
        [i \in 1..Len(headers) |->
            CASE toLowerCase(headers[i]) = "sku"   -> skuCell
              [] toLowerCase(headers[i]) = "price" -> costCell
              [] toLowerCase(headers[i]) = "stock" -> <<"7">>
              [] OTHER                             -> <<"n">>])

\* What a parser returns: a list, or the exception it threw.
Returned(list) == [threw |-> FALSE, value |-> list]
Threw          == [threw |-> TRUE]

MinusOne == Num(-1, 1)

\* ToBoolean of item.sku.
SkuTruthy(sku) == sku # <<>> /\ sku # UndefinedCell

\* A filter that also drops rows whose price is null.
KeepItem_DropsNullPrice(item) ==
    SkuTruthy(item.sku) /\ item.price # MinusOne /\ item.price # JSNull

\* .filter(item => item.sku && item.price !== -1)
KeepItem(item) == SkuTruthy(item.sku) /\ item.price # MinusOne

\* The map callback of parseTradeIdSheet.
TradeItem(row, idIdx, nameIdx, priceIdx, skuIdx, stockIdx) ==
    [ productId |-> OrEmpty(CellAt(row, idIdx)),
      name      |-> OrEmpty(CellAt(row, nameIdx)),
      price     |-> OrNull(parseFloat(CellAt(row, priceIdx))),
      sku       |-> OrEmpty(CellAt(row, skuIdx)),
      stock     |-> OrNull(parseInt(CellAt(row, stockIdx))) ]

parseTradeIdSheet(grid) ==
    IF Len(grid) < 2 THEN Returned(<<>>)
    ELSE
    LET headers  == grid[1]
        dataRows == SubSeq(grid, 2, Len(grid))
        idIdx    == IndexOfHeaderIncluding(headers, "product id")
        nameIdx  == IndexOfHeaderIncluding(headers, "product name")
        priceIdx == IndexOfHeader(headers, "price")
        skuIdx   == IndexOfHeader(headers, "sku")
        stockIdx == IndexOfHeader(headers, "stock")
        mapped   == [i \in 1..Len(dataRows) |->
                        TradeItem(dataRows[i], idIdx, nameIdx, priceIdx, skuIdx, stockIdx)]
    IN  Returned(SelectSeq(mapped, KeepItem))

\* (row[priceIdx] || '').replace(/[pound dollar euro ,]/g, '').trim()
\* .replace on undefined is a TypeError.
PriceStr(row, priceIdx) ==
    LET c == OrEmpty(CellAt(row, priceIdx))
    IN  IF c = UndefinedCell THEN UndefinedCell ELSE Trim(StripCurrency(c))

\* The map callback of parseDigitalIdSheet.
DigitalItem(row, priceIdx, skuIdx, descIdx, nameIdx, includeDescription) ==
    LET base == [ sku   |-> OrEmpty(CellAt(row, skuIdx)),
                  price |-> OrNull(parseFloat(PriceStr(row, priceIdx))) ]
    IN  IF includeDescription
        THEN [ sku         |-> base.sku,
               price       |-> base.price,
               name        |-> OrEmpty(CellAt(row, nameIdx)),
               description |-> OrEmpty(CellAt(row, descIdx)) ]
        ELSE base

parseDigitalIdSheet(grid, includeDescription) ==
    IF Len(grid) < 2 THEN Returned(<<>>)
    ELSE
    LET headers  == grid[1]
        dataRows == SubSeq(grid, 2, Len(grid))
        priceIdx == IndexOfHeader(headers, "price")
        skuIdx   == IndexOfHeader(headers, "sku")
        descIdx  == IndexOfHeader(headers, "description")
        nameIdx  == IndexOfHeader(headers, "name")
        mapped   == [i \in 1..Len(dataRows) |->
                        DigitalItem(dataRows[i], priceIdx, skuIdx, descIdx, nameIdx,
                                    includeDescription)]
    IN  IF \E i \in 1..Len(dataRows) : PriceStr(dataRows[i], priceIdx) = UndefinedCell
        THEN Threw
        ELSE Returned(SelectSeq(mapped, KeepItem))

ParseIdle ==
    /\ rows = <<>>
    /\ parser = "none"
    /\ parsed = Returned(<<>>)

\* fetchSheet resolves to data.values: first the header row, ...
SheetHeader ==
    /\ parser = "none"
    /\ rows = <<>>
    /\ \E h \in HeaderRows : rows' = <<h>>
    /\ UNCHANGED <<parser, parsed>>
    /\ UNCHANGED notParse

\* ... then the data rows.
SheetRow ==
    /\ parser = "none"
    /\ Len(rows) >= 1
    /\ Len(rows) <= MaxRows
    /\ \E sku \in SkuCells, cost \in CostCells :
           rows' = Append(rows, DataRow(rows[1], sku, cost))
    /\ UNCHANGED <<parser, parsed>>
    /\ UNCHANGED notParse

\* const tradeIdData = parseTradeIdSheet(tradeIdRows);
ParseTrade ==
    /\ parser = "none"
    /\ parser' = "trade"
    /\ parsed' = parseTradeIdSheet(rows)
    /\ UNCHANGED rows
    /\ UNCHANGED notParse

\* const digitalIdData = parseDigitalIdSheet(digitalIdRows);
ParseDigital ==
    /\ parser = "none"
    /\ parser' = "digital"
    /\ parsed' = parseDigitalIdSheet(rows, FALSE)
    /\ UNCHANGED rows
    /\ UNCHANGED notParse

ParseNext ==
    \/ SheetHeader
    \/ SheetRow
    \/ ParseTrade
    \/ ParseDigital

(***************************************************************************)
(* Properties of the sheet parsers                                         *)
(***************************************************************************)
ParserRan == parser # "none"

DataRows == IF Len(rows) < 2 THEN <<>> ELSE SubSeq(rows, 2, Len(rows))

\* The 1-based column a header equal (ignoring case) to name stands in, 0 if none.
ColumnOf(name) ==
    IF rows = <<>> THEN 0 ELSE IndexOfHeader(rows[1], name)

KeyCell(i)  == CellAt(DataRows[i], ColumnOf("sku"))
CostCell(i) == CellAt(DataRows[i], ColumnOf("price"))

\* The number the parser that ran reads in the cost cell of data row i (NaN
\* when the cell does not parse).
ParsedCost(i) ==
    IF parser = "trade"
    THEN parseFloat(CostCell(i))
    ELSE parseFloat(Trim(StripCurrency(OrEmpty(CostCell(i)))))

KeyEmpty(i) == KeyCell(i) \in {<<>>, UndefinedCell}

\* The data rows that have a key and whose cost is not the sentinel -1.
KeptRows == { i \in 1..Len(DataRows) : ~KeyEmpty(i) /\ ParsedCost(i) # MinusOne }

\* The j-th smallest member of a set of row numbers.
NthOf(S, j) == CHOOSE i \in S : Cardinality({ k \in S : k < i }) = j - 1

\* C8: neither parser throws, whatever the grid; a data row whose key cell is
\* empty or whose parsed cost is -1 is absent from the output, and every other
\* data row appears exactly once, in input order (the j-th output record is
\* built from the j-th kept row).
C8_ParserKeepsExactlyValidRows ==
    ParserRan =>
        /\ ~parsed.threw
        /\ Len(parsed.value) = Cardinality(KeptRows)
        /\ \A j \in 1..Len(parsed.value) :
              LET i == NthOf(KeptRows, j)
              IN  /\ parsed.value[j].sku = KeyCell(i)
                  /\ parsed.value[j].price = OrNull(ParsedCost(i))

\* A parsed grid of two data rows: one was dropped (no key, or cost -1), the
\* other has a cost that does not parse and was kept.
C8_Witness ==
    /\ ParserRan
    /\ Len(DataRows) = 2
    /\ \E i \in 1..2 : KeyEmpty(i) \/ ParsedCost(i) = MinusOne
    /\ \E i \in 1..2 : i \in KeptRows /\ ParsedCost(i) = NaN
    /\ Len(parsed.value) = 1

\* Two kept rows with different keys come out in input order.
C8_WitnessOrder ==
    /\ ParserRan
    /\ Len(parsed.value) = 2
    /\ parsed.value[1].sku = <<"B">>
    /\ parsed.value[2].sku = <<"A">>

\* C9 as stated: for every kept data row the parsed cost is null exactly when
\* the cost cell fails to parse as a number, and a cell that parses as a
\* number n other than -1, n = 0 included, yields cost n.
C9_NullOnlyWhenUnparseable ==
    ParserRan =>
        \A j \in 1..Len(parsed.value) :
            LET n == ParsedCost(NthOf(KeptRows, j))
            IN  /\ (parsed.value[j].price = JSNull) <=> (n = NaN)
                /\ IsNum(n) => parsed.value[j].price = n

\* The cell holds a currency sign or a thousands separator.
HasCurrencyChars(cell) == \E k \in 1..Len(cell) : cell[k] \in CurrencyChars

\* The number a cost cell denotes once those characters are stripped.
StrippedCost(cell) == parseFloat(Trim(StripCurrency(cell)))

\* C19 as stated: both parsers strip the currency signs and the thousands
\* separator from the cost cell before parsing it, so a kept row whose cost
\* cell is written with them (pound 1,250.50) carries the number (1250.5) as
\* its cost, not null, whichever parser read it.
C19_BothParsersStripCurrency ==
    ParserRan =>
        \A j \in 1..Len(parsed.value) :
            LET cell == CostCell(NthOf(KeptRows, j))
            IN  (/\ cell # UndefinedCell
                 /\ HasCurrencyChars(cell)
                 /\ Truthy(StrippedCost(cell))
                 /\ StrippedCost(cell) # MinusOne) =>
                    parsed.value[j].price = StrippedCost(cell)

(***************************************************************************)
(* combineData                                                             *)
(***************************************************************************)
\* Records as the parsers return them: a non-empty sku, a price that is null
\* or a number other than 0 and -1.  The three variants of a SKU differ in
\* every field, so that the occurrence a field came from can be told.
TradePool ==
    { [sku |-> k, productId |-> "p1", name |-> "n1", price |-> IntNum(10), stock |-> IntNum(5)]
        : k \in SKUS }
    \cup
    { [sku |-> k, productId |-> "p2", name |-> "n2", price |-> IntNum(99), stock |-> JSNull]
        : k \in SKUS }
    \cup
    { [sku |-> k, productId |-> "p3", name |-> "n3", price |-> JSNull, stock |-> IntNum(7)]
        : k \in SKUS }

DigitalPool ==
    { [sku |-> k, price |-> c] : k \in SKUS, c \in {IntNum(12), IntNum(50), JSNull} }

\* An empty Map.
EmptyMap == [k \in {} |-> JSNull]

\* Map.prototype.get: undefined for an absent key.
MapGet(m, k) == IF k \in DOMAIN m THEN m[k] ELSE JSUndef

\* A lookup in which a later record of a SKU overwrites the earlier one.
RECURSIVE BuildDigitalIdMap_LastWins(_, _)
BuildDigitalIdMap_LastWins(data, m) ==
    IF data = <<>> THEN m
    ELSE BuildDigitalIdMap_LastWins(Tail(data),
            [k \in DOMAIN m \cup {Head(data).sku} |->
                IF k = Head(data).sku THEN Head(data).price ELSE m[k]])

\* digitalIdData.forEach(item => { if (!map.has(item.sku)) map.set(item.sku, item.price) })
RECURSIVE BuildDigitalIdMap(_, _)
BuildDigitalIdMap(data, m) ==
    IF data = <<>> THEN m
    ELSE LET item == Head(data)
         IN  BuildDigitalIdMap(Tail(data),
                 IF item.sku \in DOMAIN m THEN m ELSE (item.sku :> item.price) @@ m)

\* A deduplication that collects the kept records in reverse.
RECURSIVE DedupeTradeId_Reversed(_, _)
DedupeTradeId_Reversed(data, seenSkus) ==
    IF data = <<>> THEN <<>>
    ELSE IF Head(data).sku \in seenSkus
         THEN DedupeTradeId_Reversed(Tail(data), seenSkus)
         ELSE Append(DedupeTradeId_Reversed(Tail(data), seenSkus \cup {Head(data).sku}),
                     Head(data))

\* A deduplication that keeps the last record of every SKU.
RECURSIVE DedupeTradeId_KeepsLast(_, _)
DedupeTradeId_KeepsLast(data, seenSkus) ==
    IF data = <<>> THEN <<>>
    ELSE IF \E k \in 2..Len(data) : data[k].sku = Head(data).sku
         THEN DedupeTradeId_KeepsLast(Tail(data), seenSkus)
         ELSE <<Head(data)>> \o DedupeTradeId_KeepsLast(Tail(data), seenSkus)

\* tradeIdData.filter(item => { if (seenSkus.has(item.sku)) return false; seenSkus.add(...); return true })
RECURSIVE DedupeTradeId(_, _)
DedupeTradeId(data, seenSkus) ==
    IF data = <<>> THEN <<>>
    ELSE IF Head(data).sku \in seenSkus
         THEN DedupeTradeId(Tail(data), seenSkus)
         ELSE <<Head(data)>> \o DedupeTradeId(Tail(data), seenSkus \cup {Head(data).sku})

\* The map callback of combineData.
CombinedItem(item, digitalIdMap) ==
    [ sku       |-> item.sku,
      productId |-> item.productId,
      set1      |-> [name |-> item.name, cost |-> item.price, stock |-> item.stock],
      set2      |-> [cost |-> OrNull(MapGet(digitalIdMap, item.sku))] ]

\* A filter that forgets the Digital Id side.
HasBothCosts_Set1Only(item) == item.set1.cost # JSNull

\* .filter(item => item.set1.cost !== null && item.set2.cost !== null)
HasBothCosts(item) == item.set1.cost # JSNull /\ item.set2.cost # JSNull

combineData(trade, digital) ==
    LET digitalIdMap   == BuildDigitalIdMap(digital, EmptyMap)
        dedupedTradeId == DedupeTradeId(trade, {})
        mapped         == [i \in 1..Len(dedupedTradeId) |->
                              CombinedItem(dedupedTradeId[i], digitalIdMap)]
    IN  SelectSeq(mapped, HasBothCosts)

NotCombined == [called |-> FALSE, value |-> <<>>]

CombineIdle ==
    /\ tradeIdData = <<>>
    /\ digitalIdData = <<>>
    /\ combined = NotCombined

\* One more record in parseTradeIdSheet's result.
TradeRecord ==
    /\ ~combined.called
    /\ Len(tradeIdData) < MaxList
    /\ \E r \in TradePool : tradeIdData' = Append(tradeIdData, r)
    /\ UNCHANGED <<digitalIdData, combined>>
    /\ UNCHANGED notCombine

\* One more record in parseDigitalIdSheet's result.
DigitalRecord ==
    /\ ~combined.called
    /\ Len(digitalIdData) < MaxList
    /\ \E r \in DigitalPool : digitalIdData' = Append(digitalIdData, r)
    /\ UNCHANGED <<tradeIdData, combined>>
    /\ UNCHANGED notCombine

\* const combinedData = combineData(tradeIdData, digitalIdData);
Combine ==
    /\ ~combined.called
    /\ combined' = [called |-> TRUE, value |-> combineData(tradeIdData, digitalIdData)]
    /\ UNCHANGED <<tradeIdData, digitalIdData>>
    /\ UNCHANGED notCombine

CombineNext ==
    \/ TradeRecord
    \/ DigitalRecord
    \/ Combine

(***************************************************************************)
(* Properties of combineData                                               *)
(***************************************************************************)
\* Position of the first record of list with the given SKU, 0 if there is none.
FirstIndex(list, sku) ==
    IF \E i \in 1..Len(list) : list[i].sku = sku
    THEN CHOOSE i \in 1..Len(list) :
             list[i].sku = sku /\ \A k \in 1..(i - 1) : list[k].sku # sku
    ELSE 0

HasDuplicate(list) ==
    \E i, j \in 1..Len(list) : i # j /\ list[i].sku = list[j].sku

\* C5: whatever duplicates and null costs the two lists hold, no two output
\* records share a SKU, both costs of every output record are numbers (never
\* null or undefined), and every output SKU occurs in both input lists.
C5_NoDuplicateNoNullCost ==
    combined.called =>
        /\ \A p, q \in 1..Len(combined.value) :
              combined.value[p].sku = combined.value[q].sku => p = q
        /\ \A p \in 1..Len(combined.value) :
              /\ IsNum(combined.value[p].set1.cost)
              /\ IsNum(combined.value[p].set2.cost)
              /\ FirstIndex(tradeIdData, combined.value[p].sku) > 0
              /\ FirstIndex(digitalIdData, combined.value[p].sku) > 0

\* Duplicated keys on both sides, a key whose Digital Id cost is null, and a
\* non-empty output.
C5_Witness ==
    /\ combined.called
    /\ HasDuplicate(tradeIdData)
    /\ HasDuplicate(digitalIdData)
    /\ Len(combined.value) = 1
    /\ \E i \in 1..Len(digitalIdData) : digitalIdData[i].price = JSNull

\* C6: first occurrence wins on both sides: an output record's productId,
\* name, cost and stock are those of the first Trade ID record with its SKU,
\* and its Digital ID cost is the price of the first Digital ID record with
\* its SKU; later duplicates have no influence.
C6_FirstOccurrenceWins ==
    combined.called =>
        \A p \in 1..Len(combined.value) :
            LET r == combined.value[p]
                i == FirstIndex(tradeIdData, r.sku)
                j == FirstIndex(digitalIdData, r.sku)
            IN  /\ i > 0
                /\ j > 0
                /\ r.productId = tradeIdData[i].productId
                /\ r.set1 = [name  |-> tradeIdData[i].name,
                             cost  |-> tradeIdData[i].price,
                             stock |-> tradeIdData[i].stock]
                /\ r.set2.cost = digitalIdData[j].price

\* Trade ID [A:10, A:99] and Digital ID [A:12, A:50] give one record for A with
\* costs 10 and 12.
C6_Witness ==
    /\ combined.called
    /\ Len(tradeIdData) = 2
    /\ tradeIdData[1].sku = "A" /\ tradeIdData[1].price = IntNum(10)
    /\ tradeIdData[2].sku = "A" /\ tradeIdData[2].price = IntNum(99)
    /\ Len(digitalIdData) = 2
    /\ digitalIdData[1].sku = "A" /\ digitalIdData[1].price = IntNum(12)
    /\ digitalIdData[2].sku = "A" /\ digitalIdData[2].price = IntNum(50)
    /\ Len(combined.value) = 1
    /\ combined.value[1].set1.cost = IntNum(10)
    /\ combined.value[1].set2.cost = IntNum(12)

\* C7: the output keeps the input order of the deduplicated Trade ID list: of
\* two output records, the one whose SKU occurs first in the Trade ID list
\* comes first.
C7_OutputKeepsPrimaryOrder ==
    combined.called =>
        \A p, q \in 1..Len(combined.value) :
            FirstIndex(tradeIdData, combined.value[p].sku)
                < FirstIndex(tradeIdData, combined.value[q].sku)
            => p < q

\* Two SKUs in the output, B before A as in the Trade ID list, while the
\* Digital ID list has A before B.
C7_Witness ==
    /\ combined.called
    /\ Len(combined.value) = 2
    /\ combined.value[1].sku = "B"
    /\ combined.value[2].sku = "A"
    /\ FirstIndex(digitalIdData, "A") < FirstIndex(digitalIdData, "B")

(***************************************************************************)
(* Worker: GET /api/debug/sku-diff                                          *)
(***************************************************************************)
\* SKUs are strings of one-character tokens, so that their order is computed.
DiffSkuPool == { <<"A">>, <<"A", "B">>, <<"B">>, <<"C">>, <<"D">> }

RECURSIVE SeqsUpTo(_, _)
SeqsUpTo(S, n) ==
    IF n = 0 THEN { <<>> }
    ELSE LET shorter == SeqsUpTo(S, n - 1)
         IN  shorter \cup { Append(q, x) : q \in { r \in shorter : Len(r) = n - 1 }, x \in S }

\* The item lists the two parsers may return, as the SKUs of their items.
DiffSkuLists == SeqsUpTo(DiffSkuPool, MaxSkus)

\* UTF-16 code unit of a character of a SKU.
CodeUnit(c) ==
    CASE c = "A" -> 65 [] c = "B" -> 66 [] c = "C" -> 67 [] c = "D" -> 68

\* The default comparison of Array.prototype.sort: a before b when a is
\* smaller as a string, code unit by code unit, a proper prefix being smaller.
RECURSIVE StringLess(_, _)
StringLess(a, b) ==
    IF b = <<>> THEN FALSE
    ELSE IF a = <<>> THEN TRUE
    ELSE IF CodeUnit(Head(a)) # CodeUnit(Head(b)) THEN CodeUnit(Head(a)) < CodeUnit(Head(b))
    ELSE StringLess(Tail(a), Tail(b))

\* set.has(x), the Set being kept as the sequence of its members in insertion order.
SetHas(set, x) == \E i \in 1..Len(set) : set[i] = x

\* data.forEach(item => set.add(item.sku)) from the empty Set.
RECURSIVE SetOfSkus(_, _)
SetOfSkus(data, set) ==
    IF data = <<>> THEN set
    ELSE SetOfSkus(Tail(data), IF SetHas(set, Head(data)) THEN set ELSE Append(set, Head(data)))

\* Inserting x into a sorted list.
RECURSIVE SortedInsert(_, _)
SortedInsert(list, x) ==
    IF list = <<>> THEN <<x>>
    ELSE IF StringLess(x, Head(list)) THEN <<x>> \o list
    ELSE <<Head(list)>> \o SortedInsert(Tail(list), x)

\* The list left as the filter produced it.
ArraySort_Unsorted(list) == list

\* list.sort() with the default comparison.
RECURSIVE ArraySort(_)
ArraySort(list) ==
    IF list = <<>> THEN <<>>
    ELSE SortedInsert(ArraySort(Tail(list)), Head(list))

\* [...set].filter(sku => !other.has(sku)) and [...set].filter(sku => other.has(sku))
NotIn(set, other) == SelectSeq(set, LAMBDA sku : ~SetHas(other, sku))
AlsoIn(set, other) == SelectSeq(set, LAMBDA sku : SetHas(other, sku))

\* The body the handler answers with, from the two parsed lists.
skuDiff(tradeData, digitalData) ==
    LET tradeIdSkus       == SetOfSkus(tradeData, <<>>)
        digitalIdSkus     == SetOfSkus(digitalData, <<>>)
        inDigitalNotTrade == NotIn(digitalIdSkus, tradeIdSkus)
        inTradeNotDigital == NotIn(tradeIdSkus, digitalIdSkus)
    IN  [ tradeIdCount      |-> Len(tradeIdSkus),
          digitalIdCount    |-> Len(digitalIdSkus),
          matchedCount      |-> Len(AlsoIn(tradeIdSkus, digitalIdSkus)),
          inDigitalNotTrade |-> [count |-> Len(inDigitalNotTrade),
                                 skus  |-> ArraySort(inDigitalNotTrade)],
          inTradeNotDigital |-> [count |-> Len(inTradeNotDigital),
                                 skus  |-> ArraySort(inTradeNotDigital)] ]

NoDiff == [status |-> 0, body |-> skuDiff(<<>>, <<>>)]

DiffIdle ==
    /\ diffTrade = <<>>
    /\ diffDigital = <<>>
    /\ diffResponse = NoDiff

\* GET /api/debug/sku-diff with both sheets fetched and parsed.
SkuDiffRequest ==
    /\ diffResponse = NoDiff
    /\ \E tradeData \in DiffSkuLists, digitalData \in DiffSkuLists :
        /\ diffTrade' = tradeData
        /\ diffDigital' = digitalData
        /\ diffResponse' = [status |-> 200, body |-> skuDiff(tradeData, digitalData)]
    /\ UNCHANGED notDiff

\* Fetching a sheet failed: the handler's catch answers 500.
SkuDiffFailure ==
    /\ diffResponse = NoDiff
    /\ diffTrade' = <<>>
    /\ diffDigital' = <<>>
    /\ diffResponse' = [status |-> 500, body |-> skuDiff(<<>>, <<>>)]
    /\ UNCHANGED notDiff

DiffNext ==
    \/ SkuDiffRequest
    \/ SkuDiffFailure

(***************************************************************************)
(* Worker: fetch(request) up to the routes: CORS preflight and Basic auth   *)
(***************************************************************************)
\* The base64 alphabet, in the order of its 6-bit values.
B64Alphabet ==
    << "A", "B", "C", "D", "E", "F", "G", "H", "I", "J", "K", "L", "M", "N", "O", "P",
       "Q", "R", "S", "T", "U", "V", "W", "X", "Y", "Z", "a", "b", "c", "d", "e", "f",
       "g", "h", "i", "j", "k", "l", "m", "n", "o", "p", "q", "r", "s", "t", "u", "v",
       "w", "x", "y", "z", "0", "1", "2", "3", "4", "5", "6", "7", "8", "9", "+", "/" >>

B64Value(c) == (CHOOSE i \in 1..Len(B64Alphabet) : B64Alphabet[i] = c) - 1

IsB64Char(c) == \E i \in 1..Len(B64Alphabet) : B64Alphabet[i] = c

\* String.fromCharCode for the letters, the digits and ':'; any other code
\* unit is written "?".
fromCharCode(code) ==
    CASE code >= 65 /\ code <= 90  -> B64Alphabet[code - 64]
      [] code >= 97 /\ code <= 122 -> B64Alphabet[code - 70]
      [] code >= 48 /\ code <= 57  -> B64Alphabet[code + 5]
      [] code = 58                 -> ":"
      [] OTHER                     -> "?"

\* atob throws InvalidCharacterError, or returns the decoded string.
AtobThrew       == [threw |-> TRUE, value |-> <<>>]
AtobReturned(v) == [threw |-> FALSE, value |-> v]

\* The bytes of base64 characters already stripped of padding (length not 1 mod 4).
RECURSIVE B64Bytes(_)
B64Bytes(s) ==
    IF Len(s) < 2 THEN <<>>
    ELSE
    LET n    == IF Len(s) >= 4 THEN 4 ELSE Len(s)
        v(i) == IF i <= n THEN B64Value(s[i]) ELSE 0
        bits == ((v(1) * 64 + v(2)) * 64 + v(3)) * 64 + v(4)
        b1   == bits \div 65536
        b2   == (bits \div 256) % 256
        b3   == bits % 256
        out  == CASE n = 2 -> <<b1>> [] n = 3 -> <<b1, b2>> [] OTHER -> <<b1, b2, b3>>
    IN  out \o B64Bytes(SubSeq(s, n + 1, Len(s)))

\* atob(data): forgiving base64 decoding.
atob(data) ==
    LET noWs   == SelectSeq(data, LAMBDA c : c # " ")
        pad    == IF Len(noWs) % 4 = 0 /\ Len(noWs) > 0 /\ noWs[Len(noWs)] = "="
                  THEN IF noWs[Len(noWs) - 1] = "=" THEN 2 ELSE 1
                  ELSE 0
        chars  == SubSeq(noWs, 1, Len(noWs) - pad)
        bytes  == B64Bytes(chars)
    IN  IF Len(chars) % 4 = 1 \/ \E i \in 1..Len(chars) : ~IsB64Char(chars[i])
        THEN AtobThrew
        ELSE AtobReturned([i \in 1..Len(bytes) |-> fromCharCode(bytes[i])])

\* str.split(':'): the pieces between the colons.
RECURSIVE SplitColon(_, _)
SplitColon(str, piece) ==
    IF str = <<>> THEN << piece >>
    ELSE IF Head(str) = ":" THEN << piece >> \o SplitColon(Tail(str), <<>>)
    ELSE SplitColon(Tail(str), Append(piece, Head(str)))

\* authHeader.startsWith('Basic ')
BasicPrefix == << "B", "a", "s", "i", "c", " " >>

StartsWithBasic(h) == Len(h) >= 6 /\ SubSeq(h, 1, 6) = BasicPrefix

BASIC_AUTH_USER == << "a", "d", "m", "i", "n" >>
BASIC_AUTH_PASS == << "1", "q", "2", "w", "3", "e", "4", "r" >>

\* The Authorization header: absent (headers.get gives null) or its text.
NoHeader       == [present |-> FALSE, text |-> <<>>]
HeaderOf(text) == [present |-> TRUE, text |-> text]

\* The header texts a request may carry: the empty text, 'Basic ' with the
\* base64 of some credentials or with a payload that is not base64, and
\* another scheme.
AuthHeaderTexts ==
    { <<>>,
      \* admin:1q2w3e4r
      << "B", "a", "s", "i", "c", " ", "Y", "W", "R", "t", "a", "W", "4", "6", "M", "X", "E", "y", "d", "z", "N", "l", "N", "H", "I", "=" >>,
      \* admin:wrong
      << "B", "a", "s", "i", "c", " ", "Y", "W", "R", "t", "a", "W", "4", "6", "d", "3", "J", "v", "b", "m", "c", "=" >>,
      \* admin:1q2w3e4r:x
      << "B", "a", "s", "i", "c", " ", "Y", "W", "R", "t", "a", "W", "4", "6", "M", "X", "E", "y", "d", "z", "N", "l", "N", "H", "I", "6", "e", "A", "=", "=" >>,
      \* admin, no colon
      << "B", "a", "s", "i", "c", " ", "Y", "W", "R", "t", "a", "W", "4", "=" >>,
      \* a character outside the alphabet
      << "B", "a", "s", "i", "c", " ", "Y", "W", "R", "t", "!", "W", "4", "6" >>,
      \* a length of 1 modulo 4
      << "B", "a", "s", "i", "c", " ", "Y", "W", "R", "t", "a" >>,
      \* no payload
      << "B", "a", "s", "i", "c", " " >>,
      \* another scheme
      << "B", "e", "a", "r", "e", "r", " ", "Y", "W", "R", "t", "a", "W", "4", "6", "M", "X", "E", "y", "d", "z", "N", "l", "N", "H", "I", "=" >> }

AuthHeaders == { NoHeader } \cup { HeaderOf(t) : t \in AuthHeaderTexts }

\* What checkBasicAuth does: returns true or false, or throws out of atob.
\* Only the first two pieces of the split are read.
checkBasicAuth(authHeader) ==
    IF ~authHeader.present \/ authHeader.text = <<>> \/ ~StartsWithBasic(authHeader.text)
    THEN "false"
    ELSE
    LET base64Credentials == SubSeq(authHeader.text, 7, Len(authHeader.text))
        credentials       == atob(base64Credentials)
        pieces            == SplitColon(credentials.value, <<>>)
    IN  IF credentials.threw THEN "threw"
        ELSE IF /\ pieces[1] = BASIC_AUTH_USER
                /\ Len(pieces) >= 2
                /\ pieces[2] = BASIC_AUTH_PASS
             THEN "true" ELSE "false"

Methods == { "GET", "POST", "OPTIONS" }

Paths == { "/", "/style.css", "/api/products", "/api/exchange-rate", "/api/zoho/batch-update" }

\* The routes behind the gate: the API handler a request reaches, or the
\* static assets.
RouteOf(method, path) ==
    CASE path = "/api/products" -> "api"
      [] path = "/api/exchange-rate" -> "api"
      [] path = "/api/zoho/batch-update" /\ method = "POST" -> "api"
      [] OTHER -> "assets"

GateIdle ==
    /\ request = [method |-> "GET", path |-> "/", authorization |-> NoHeader]
    /\ gate = "idle"
    /\ answer = 0
    /\ ran = "nothing"

\* A request arrives.
GateReceive ==
    /\ gate = "idle"
    /\ \E method \in Methods, path \in Paths, authorization \in AuthHeaders :
          request' = [method |-> method, path |-> path, authorization |-> authorization]
    /\ gate' = "auth"
    /\ UNCHANGED <<answer, ran>>
    /\ UNCHANGED notGate

\* fetch up to the routes: the preflight answer, then checkBasicAuth.  An
\* exception out of checkBasicAuth leaves fetch; the runtime answers 500.
GateCheck ==
    /\ gate = "auth"
    /\ IF request.method = "OPTIONS"
       THEN gate' = "done" /\ answer' = 200
       ELSE LET verdict == checkBasicAuth(request.authorization)
            IN  CASE verdict = "threw" -> gate' = "done" /\ answer' = 500
                  [] verdict = "false" -> gate' = "done" /\ answer' = 401
                  [] OTHER             -> gate' = "route" /\ answer' = 0
    /\ UNCHANGED <<request, ran>>
    /\ UNCHANGED notGate

\* The route of an authorised request runs and answers.
GateRoute ==
    /\ gate = "route"
    /\ ran' = RouteOf(request.method, request.path)
    /\ \E status \in {200, 404, 500} : answer' = status
    /\ gate' = "done"
    /\ UNCHANGED request
    /\ UNCHANGED notGate

GateNext ==
    \/ GateReceive
    \/ GateCheck
    \/ GateRoute

(***************************************************************************)
(* Client: exchange rate, pricing rules, overrides (assets/script.js)       *)
(***************************************************************************)
\* What fetchExchangeRate resolves to: null when the request failed or the
\* answer carried an error, else the answer { rate, date, pair }.  A rate the
\* worker could not parse arrives as null (JSON.stringify(NaN)).
RateAnswers ==
    { [ok |-> FALSE, rate |-> JSUndef] }
    \cup { [ok |-> TRUE, rate |-> r] : r \in {JSUndef, JSNull, Num(0, 1), Num(6, 5), Num(2, 1)} }

\* What fetchProductData resolves to: [] on failure, else combineData's list.
ProductA == [sku |-> "A", productId |-> "p1",
             set1 |-> [name |-> "n1", cost |-> IntNum(10), stock |-> IntNum(5)],
             set2 |-> [cost |-> IntNum(12)]]
ProductB == [sku |-> "B", productId |-> "p2",
             set1 |-> [name |-> "n2", cost |-> IntNum(3), stock |-> JSNull],
             set2 |-> [cost |-> Num(41, 4)]]

\* A record whose Digital ID cost is negative: the parsers drop only the cost
\* -1, every other negative number is kept.
ProductC == [sku |-> "C", productId |-> "p3",
             set1 |-> [name |-> "n3", cost |-> IntNum(7), stock |-> IntNum(1)],
             set2 |-> [cost |-> Num(-41, 4)]]

ProductAnswers == { <<>>, <<ProductA>>, <<ProductA, ProductB>>, <<ProductC>> }

\* The values of the identity dropdown: '', 'digitalId', '+n'.
Selections == {"", "digitalId", "+20", "+100"}

\* selection.match(/^\+(\d+)$/) and parseInt of its group: the markup percent,
\* or no match.
MarkupMatch(selection) ==
    CASE selection = "+20"  -> [matched |-> TRUE, markupPercent |-> 20]
      [] selection = "+100" -> [matched |-> TRUE, markupPercent |-> 100]
      [] OTHER              -> [matched |-> FALSE, markupPercent |-> 0]

\* The option values of the rounding select: none, 0.05, 0.50, 1.00.
RoundingOptions ==
    { <<>>, <<"0">>, <<"0", ".", "0", "5">>, <<"0", ".", "5", "0">>, <<"1", ".", "0", "0">> }

\* The idiom  v || 0.
OrZero(v) == IF Truthy(v) THEN v ELSE Num(0, 1)

\* parseFloat(e.target.value) || 0
RoundingOf(value) == OrZero(parseFloat(value))

RoundingValues == { RoundingOf(v) : v \in RoundingOptions }

\* What the identity input holds after its sanitising (digits and one '.').
InputValues == { <<>>, <<"0">>, <<"9", ".", "5">>, <<".">> }

\* function roundToNearest(value, nearest)
roundToNearest(value, nearest) ==
    IF ~Truthy(nearest) \/ nearest = Num(0, 1) THEN value
    ELSE JSMul(MathRound(JSDiv(value, nearest)), nearest)

\* gbpToEur converting the wrong way: the amount times the rate.
gbpToEurAt_Multiplies(rate, gbpAmount) ==
    IF IsNullish(gbpAmount) \/ ~Truthy(rate) THEN JSNull ELSE JSMul(gbpAmount, rate)

\* gbpToEur without the test of the rate.
gbpToEurAt_NoRateTest(rate, gbpAmount) ==
    IF IsNullish(gbpAmount) THEN JSNull ELSE JSDiv(gbpAmount, rate)

\* function gbpToEur(gbpAmount), with the exchangeRate it reads as a parameter.
gbpToEurAt(rate, gbpAmount) ==
    IF IsNullish(gbpAmount) \/ ~Truthy(rate) THEN JSNull ELSE JSDiv(gbpAmount, rate)

gbpToEur(gbpAmount) == gbpToEurAt(exchangeRate, gbpAmount)

\* function calculateIdentityPrice(product, selection), with the exchangeRate
\* and roundingValue it reads as parameters.
calculateIdentityPriceAt(rate, rounding, product, selection) ==
    IF selection = "" THEN JSNull
    ELSE
    LET digitalIdGbp == product.set2.cost
        eurPrice     == gbpToEurAt(rate, digitalIdGbp)
        m            == MarkupMatch(selection)
        price        ==
            IF selection = "digitalId" THEN eurPrice
            ELSE IF m.matched
                 THEN JSMul(eurPrice, JSAdd(IntNum(1), JSDiv(IntNum(m.markupPercent), IntNum(100))))
                 ELSE JSNull
    IN  IF IsNullish(digitalIdGbp) THEN JSNull
        ELSE IF selection # "digitalId" /\ m.matched /\ IsNullish(eurPrice) THEN JSNull
        ELSE IF price # JSNull /\ JSGreater(rounding, Num(0, 1))
             THEN roundToNearest(price, rounding)
             ELSE price

calculateIdentityPrice(product, selection) ==
    calculateIdentityPriceAt(exchangeRate, roundingValue, product, selection)

\* getIdentityPrice testing the override for truthiness:  if (identityOverrides[sku])
getIdentityPrice_TruthyTest(sku, product) ==
    IF sku \in DOMAIN identityOverrides /\ Truthy(identityOverrides[sku])
    THEN identityOverrides[sku]
    ELSE calculateIdentityPrice(product,
             IF sku \in DOMAIN identitySelections THEN identitySelections[sku] ELSE "")

\* function getIdentityPrice(sku, product)
getIdentityPrice(sku, product) ==
    IF sku \in DOMAIN identityOverrides
    THEN identityOverrides[sku]
    ELSE calculateIdentityPrice(product,
             IF sku \in DOMAIN identitySelections THEN identitySelections[sku] ELSE "")

\* Emptying the whole object in the place of deleting one key.
Delete_All(obj, key) == EmptyMap

\* delete obj[key]
Delete(obj, key) == [k \in (DOMAIN obj) \ {key} |-> obj[k]]

\* An assignment that writes the value under every key of the object.
Put_EveryKey(obj, key, value) == [k \in (DOMAIN obj) \cup {key} |-> value]

\* obj[key] = value
Put(obj, key, value) == [k \in (DOMAIN obj) \cup {key} |-> IF k = key THEN value ELSE obj[k]]

ProductSkus == { productData[i].sku : i \in 1..Len(productData) }

\* What lastOp records: the event and its arguments.
Op(op, sku, selection, value) ==
    [op |-> op, sku |-> sku, selection |-> selection, value |-> value]

PriceIdle ==
    /\ lastOp = Op("none", "", "", <<>>)
    /\ loaded = FALSE
    /\ rateData = [ok |-> FALSE, rate |-> JSUndef]
    /\ exchangeRate = JSNull
    /\ productData = <<>>
    /\ identitySelections = EmptyMap
    /\ identityOverrides = EmptyMap
    /\ roundingValue = Num(0, 1)

\* function updateExchangeRateDisplay(data): if (data && data.rate) exchangeRate = data.rate
updateExchangeRateDisplay(data) ==
    IF data.ok /\ Truthy(data.rate) THEN data.rate ELSE exchangeRate

\* The DOMContentLoaded listener up to the first render: both fetches have
\* resolved (each catches its own failure).
PageLoad ==
    /\ ~loaded
    /\ loaded' = TRUE
    /\ \E data \in RateAnswers, products \in ProductAnswers :
        /\ rateData' = data
        /\ exchangeRate' = updateExchangeRateDisplay(data)
        /\ productData' = products
    /\ lastOp' = Op("load", "", "", <<>>)
    /\ UNCHANGED <<identitySelections, identityOverrides, roundingValue>>
    /\ UNCHANGED notPrice

\* The browser reloads the page: the script runs again from its first line,
\* every global is back at its initialiser and DOMContentLoaded is awaited.
PageReload ==
    /\ loaded
    /\ loaded' = FALSE
    /\ rateData' = [ok |-> FALSE, rate |-> JSUndef]
    /\ exchangeRate' = JSNull
    /\ productData' = <<>>
    /\ identitySelections' = EmptyMap
    /\ identityOverrides' = EmptyMap
    /\ roundingValue' = Num(0, 1)
    /\ lastOp' = Op("reload", "", "", <<>>)
    /\ UNCHANGED notPrice

\* function updateIdentityFromDropdown(sku, selection), from the change
\* listener of a rendered row.
updateIdentityFromDropdown ==
    /\ \E sku \in ProductSkus, selection \in Selections :
        /\ identitySelections' = Put(identitySelections, sku, selection)
        /\ identityOverrides' = Delete(identityOverrides, sku)
        /\ lastOp' = Op("dropdown", sku, selection, <<>>)
    /\ UNCHANGED <<loaded, rateData, exchangeRate, productData, roundingValue>>
    /\ UNCHANGED notPrice

\* function updateIdentityFromInput(sku, value), from the input listener of a
\* rendered row.
updateIdentityFromInput ==
    /\ \E sku \in ProductSkus, value \in InputValues :
        LET numValue == parseFloat(value)
        IN  /\ identityOverrides' =
                  IF numValue # NaN /\ ~JSGreater(Num(0, 1), numValue)
                  THEN Put(identityOverrides, sku, numValue)
                  ELSE IF value = <<>>
                       THEN Delete(identityOverrides, sku)
                       ELSE identityOverrides
            /\ lastOp' = Op("input", sku, "", value)
    /\ UNCHANGED <<loaded, rateData, exchangeRate, productData, identitySelections,
                   roundingValue>>
    /\ UNCHANGED notPrice

\* The fill-all change listener: if (e.target.value) fillAllIdentity(e.target.value)
fillAllIdentity ==
    /\ \E selection \in Selections \ {""} :
        /\ identitySelections' =
              [k \in (DOMAIN identitySelections) \cup ProductSkus |->
                  IF k \in ProductSkus THEN selection ELSE identitySelections[k]]
        /\ identityOverrides' =
              [k \in (DOMAIN identityOverrides) \ ProductSkus |-> identityOverrides[k]]
        /\ lastOp' = Op("fillAll", "", selection, <<>>)
    /\ UNCHANGED <<loaded, rateData, exchangeRate, productData, roundingValue>>
    /\ UNCHANGED notPrice

\* The rounding select's change listener.
RoundingChange ==
    /\ \E v \in RoundingOptions :
        /\ roundingValue' = RoundingOf(v)
        /\ lastOp' = Op("rounding", "", "", v)
    /\ identityOverrides' = EmptyMap
    /\ UNCHANGED <<loaded, rateData, exchangeRate, productData, identitySelections>>
    /\ UNCHANGED notPrice

PriceNext ==
    \/ PageLoad
    \/ PageReload
    \/ updateIdentityFromDropdown
    \/ updateIdentityFromInput
    \/ fillAllIdentity
    \/ RoundingChange

(***************************************************************************)
(* Properties of the derived price                                         *)
(***************************************************************************)
\* The rate the page was given is null, missing or exactly 0.
NoUsableRate == ~rateData.ok \/ IsNullish(rateData.rate) \/ rateData.rate = Num(0, 1)

\* The values exchangeRate may hold when no rate is available.
AbsentRates == { JSNull, JSUndef, Num(0, 1) }

\* C10: whenever the exchange rate is null, missing or exactly 0, the derived
\* price of every record under every pricing rule is null (no Infinity, no
\* NaN), with every rounding value: in every state the page reaches with such
\* a rate, and for calculateIdentityPrice read with such a rate.
C10_NoRateGivesNull ==
    /\ (loaded /\ NoUsableRate) =>
          /\ exchangeRate \in AbsentRates
          /\ \A i \in 1..Len(productData), selection \in Selections :
                calculateIdentityPrice(productData[i], selection) = JSNull
    /\ \A rate \in AbsentRates, rounding \in RoundingValues,
          i \in 1..Len(productData), selection \in Selections :
            calculateIdentityPriceAt(rate, rounding, productData[i], selection) = JSNull

\* The page was loaded with a rate of exactly 0, products are shown, a markup
\* rule is selected and a rounding increment is set.
C10_Witness ==
    /\ loaded
    /\ rateData.ok
    /\ rateData.rate = Num(0, 1)
    /\ Len(productData) = 2
    /\ "A" \in DOMAIN identitySelections
    /\ identitySelections["A"] = "+20"
    /\ roundingValue = Num(1, 2)
    /\ getIdentityPrice("A", productData[1]) = JSNull

\* The rule '+n' with its percent n.
MarkupRules == { sel \in Selections : MarkupMatch(sel).matched }

\* Costs a Trade ID record may carry instead of its own.
PrimaryCosts == { JSNull, IntNum(0), IntNum(1), IntNum(1000) }

\* C11: with a usable (non-zero) exchange rate and no rounding, the derived
\* price of every record is set2.cost / rate under the rule 'digitalId' and
\* (set2.cost / rate) * (1 + n/100) under a rule '+n' (cost 12 at rate 1.2:
\* 10 and, with +20, 12), and it is the same whatever the Trade ID cost is.
C11_PriceFromSecondaryCost ==
    (loaded /\ Truthy(exchangeRate) /\ roundingValue = Num(0, 1)) =>
        \A i \in 1..Len(productData) :
            LET product == productData[i]
                base    == JSDiv(product.set2.cost, exchangeRate)
            IN  /\ calculateIdentityPrice(product, "digitalId") = base
                /\ \A sel \in MarkupRules :
                      calculateIdentityPrice(product, sel)
                        = JSMul(base, Num(100 + MarkupMatch(sel).markupPercent, 100))
                /\ (product.set2.cost = IntNum(12) /\ exchangeRate = Num(6, 5)) =>
                      /\ calculateIdentityPrice(product, "digitalId") = IntNum(10)
                      /\ calculateIdentityPrice(product, "+20") = IntNum(12)
                /\ \A c \in PrimaryCosts, sel \in Selections :
                      calculateIdentityPrice([product EXCEPT !.set1.cost = c], sel)
                        = calculateIdentityPrice(product, sel)

\* The page holds cost 12 at rate 1.2 without rounding, '+20' is selected for
\* the record and its price is 12.
C11_Witness ==
    /\ loaded
    /\ exchangeRate = Num(6, 5)
    /\ roundingValue = Num(0, 1)
    /\ Len(productData) >= 1
    /\ productData[1].set2.cost = IntNum(12)
    /\ "A" \in DOMAIN identitySelections
    /\ identitySelections["A"] = "+20"
    /\ "A" \notin DOMAIN identityOverrides
    /\ getIdentityPrice("A", productData[1]) = IntNum(12)

\* a - b and |a| on numbers, for stating distances.
NumSub(a, b) == JSAdd(a, JSMul(IntNum(-1), b))
NumAbs(a)    == Num(Abs(a.n), a.d)

\* Twice the distance of q from p.
TwiceDistance(p, q) == JSMul(IntNum(2), NumAbs(NumSub(p, q)))

\* The price of a rule before rounding, and the price the page derives.
UnroundedPrice(product, sel) ==
    calculateIdentityPriceAt(exchangeRate, Num(0, 1), product, sel)

\* q is a multiple of inc nearest to p.
NearestMultiple(p, q, inc) ==
    /\ IsNum(q)
    /\ JSDiv(q, inc).d = 1
    /\ ~JSGreater(TwiceDistance(p, q), inc)

\* p lies exactly between two multiples of inc.
IsTie(p, q, inc) == TwiceDistance(p, q) = inc

\* C12 as stated: with an increment inc > 0 the derived price is the multiple
\* of inc nearest to the unrounded price p, an exact tie going away from zero.
C12_TiesAwayFromZero ==
    (loaded /\ JSGreater(roundingValue, Num(0, 1))) =>
        \A i \in 1..Len(productData), sel \in Selections :
            LET p == UnroundedPrice(productData[i], sel)
                q == calculateIdentityPrice(productData[i], sel)
            IN  IsNum(p) =>
                  /\ NearestMultiple(p, q, roundingValue)
                  /\ IsTie(p, q, roundingValue) => JSGreater(NumAbs(q), NumAbs(p))

\* C12: with an increment inc > 0 the derived price is the multiple of inc
\* nearest to the unrounded price p, an exact tie going up (to the greater
\* multiple, which is away from zero for p >= 0); with the increment 0 or
\* absent the price is returned unchanged (inc 0.50: 10.23 gives 10.00 and
\* 10.26 gives 10.50).
C12_NearestMultipleTiesUp ==
    /\ (loaded /\ JSGreater(roundingValue, Num(0, 1))) =>
          \A i \in 1..Len(productData), sel \in Selections :
              LET p == UnroundedPrice(productData[i], sel)
                  q == calculateIdentityPrice(productData[i], sel)
              IN  IsNum(p) =>
                    /\ NearestMultiple(p, q, roundingValue)
                    /\ IsTie(p, q, roundingValue) => JSGreater(q, p)
                    /\ (IsTie(p, q, roundingValue) /\ ~JSGreater(Num(0, 1), p)) =>
                          JSGreater(NumAbs(q), NumAbs(p))
    /\ \A i \in 1..Len(productData), sel \in Selections, none \in {Num(0, 1), JSUndef, JSNull} :
          LET p == UnroundedPrice(productData[i], sel)
          IN  roundToNearest(p, none) = p
    /\ roundToNearest(Num(1023, 100), Num(1, 2)) = IntNum(10)
    /\ roundToNearest(Num(1026, 100), Num(1, 2)) = Num(21, 2)

\* A negative price on an exact tie is shown rounded: -5.125 with the
\* increment 0.05 is -5.10.
C12_Witness ==
    /\ loaded
    /\ exchangeRate = Num(2, 1)
    /\ roundingValue = Num(1, 20)
    /\ Len(productData) = 1
    /\ productData[1].sku = "C"
    /\ "C" \in DOMAIN identitySelections
    /\ identitySelections["C"] = "digitalId"
    /\ UnroundedPrice(productData[1], "digitalId") = Num(-41, 8)
    /\ getIdentityPrice("C", productData[1]) = Num(-51, 10)

\* The rule selected for a SKU ('' when none was chosen) and its derived price.
SelectionOf(sku) == IF sku \in DOMAIN identitySelections THEN identitySelections[sku] ELSE ""

DerivedPrice(product) == calculateIdentityPrice(product, SelectionOf(product.sku))

\* C13: in every reachable state and for every SKU shown, the effective
\* price (getIdentityPrice) is the override whenever one is set for the SKU,
\* an override of exactly 0 included, and the rule-derived price only when
\* none is set.
C13_OverrideWins ==
    \A i \in 1..Len(productData) :
        LET product == productData[i]
            sku     == product.sku
        IN  /\ sku \in DOMAIN identityOverrides =>
                  getIdentityPrice(sku, product) = identityOverrides[sku]
            /\ sku \notin DOMAIN identityOverrides =>
                  getIdentityPrice(sku, product) = DerivedPrice(product)

\* An override of exactly 0 is set for a SKU whose rule derives the price 12:
\* the effective price is 0.
C13_Witness ==
    /\ loaded
    /\ Len(productData) >= 1
    /\ productData[1].sku = "A"
    /\ "A" \in DOMAIN identityOverrides
    /\ identityOverrides["A"] = Num(0, 1)
    /\ DerivedPrice(productData[1]) = IntNum(12)
    /\ getIdentityPrice("A", productData[1]) = Num(0, 1)

\* Every key a selection or an override may be stored under.
Keys == {"A", "B", "C"}

\* This step ends the override, or the selection, that key k had.
OverrideLost(k) ==
    /\ k \in DOMAIN identityOverrides
    /\ k \notin DOMAIN identityOverrides' \/ identityOverrides'[k] # identityOverrides[k]

SelectionLost(k) ==
    /\ k \in DOMAIN identitySelections
    /\ k \notin DOMAIN identitySelections' \/ identitySelections'[k] # identitySelections[k]

\* This step is the user's own edit of key k's override (typing a value or
\* emptying the input), or a change of a rule parameter that covers k.
OverrideEdited(k)   == lastOp'.op = "input" /\ lastOp'.sku = k
RuleChanged(k)      == \/ lastOp'.op = "dropdown" /\ lastOp'.sku = k
                       \/ lastOp'.op = "fillAll" /\ k \in ProductSkus
RoundingChanged     == lastOp'.op = "rounding"
PageReloaded        == lastOp'.op = "reload"

\* C14 as stated: an override or a selection, once set for a key, ends only by
\* the user's edit of that override or by a rule-parameter change (rule
\* selection for that key, fill-all, rounding change); no other operation,
\* a reload of the page included, ends it.
C14_SurvivesEveryOperation ==
    [][\A k \in Keys :
          /\ OverrideLost(k) => OverrideEdited(k) \/ RuleChanged(k) \/ RoundingChanged
          /\ SelectionLost(k) => RuleChanged(k)]_vars

\* C14: an override or a selection, once set for a key, ends only by the
\* user's edit of that override, by a rule-parameter change (rule selection
\* for that key, fill-all, rounding change for overrides) or by a reload of
\* the page, which empties both; an override that goes without a new value
\* goes by emptying the input, a rule-parameter change or a reload.
C14_SurvivesUntilClearedOrReload ==
    [][\A k \in Keys :
          /\ OverrideLost(k) =>
                OverrideEdited(k) \/ RuleChanged(k) \/ RoundingChanged \/ PageReloaded
          /\ (OverrideLost(k) /\ k \notin DOMAIN identityOverrides' /\ OverrideEdited(k)) =>
                lastOp'.value = <<>>
          /\ SelectionLost(k) => RuleChanged(k) \/ PageReloaded]_vars

\* Two records carry an override and a selection each, and the last operation
\* was on the other record: a rule selection for B while A keeps its override.
C14_Witness ==
    /\ loaded
    /\ Len(productData) = 2
    /\ lastOp.op = "dropdown"
    /\ lastOp.sku = "B"
    /\ "A" \in DOMAIN identityOverrides
    /\ identityOverrides["A"] = Num(19, 2)
    /\ "A" \in DOMAIN identitySelections
    /\ identitySelections["A"] = "+20"

\* The members of a list, as a set.
Members(list) == { list[i] : i \in 1..Len(list) }

\* The list has no member twice and is in ascending string order.
StrictlyAscending(list) ==
    \A i \in 1..Len(list), j \in 1..Len(list) : i < j => StringLess(list[i], list[j])

DiffAnswered == diffResponse.status = 200

\* C15: for the key sets A (Trade ID) and B (Digital ID) the diff answers
\* inTradeNotDigital = A \ B and inDigitalNotTrade = B \ A, each without
\* duplicates and in ascending string order, with matchedCount = |A /\ B|, so
\* that each count plus matchedCount is the size of its key set ({A,B,C}
\* against {B,C,D}: [A], [D], 2).
C15_DiffIsSetDifference ==
    DiffAnswered =>
        LET A    == Members(diffTrade)
            B    == Members(diffDigital)
            out  == diffResponse.body
            onlyTrade   == out.inTradeNotDigital
            onlyDigital == out.inDigitalNotTrade
        IN  /\ Members(onlyTrade.skus) = A \ B
            /\ Members(onlyDigital.skus) = B \ A
            /\ StrictlyAscending(onlyTrade.skus)
            /\ StrictlyAscending(onlyDigital.skus)
            /\ onlyTrade.count = Cardinality(A \ B)
            /\ onlyDigital.count = Cardinality(B \ A)
            /\ out.matchedCount = Cardinality(A \cap B)
            /\ out.tradeIdCount = Cardinality(A)
            /\ out.digitalIdCount = Cardinality(B)
            /\ onlyTrade.count + out.matchedCount = Cardinality(A)
            /\ onlyDigital.count + out.matchedCount = Cardinality(B)
            /\ (diffTrade = << <<"A">>, <<"B">>, <<"C">> >>
                  /\ diffDigital = << <<"B">>, <<"C">>, <<"D">> >>) =>
                  /\ onlyTrade.skus = << <<"A">> >>
                  /\ onlyDigital.skus = << <<"D">> >>
                  /\ out.matchedCount = 2

\* The Trade ID sheet lists B, A and B again, the Digital ID sheet lists C
\* and AB: the diff answers [A, B] and [AB, C] with no match.
C15_Witness ==
    /\ DiffAnswered
    /\ diffTrade = << <<"B">>, <<"A">>, <<"B">> >>
    /\ diffDigital = << <<"C">>, <<"A", "B">> >>
    /\ diffResponse.body.inTradeNotDigital.skus = << <<"A">>, <<"B">> >>
    /\ diffResponse.body.inDigitalNotTrade.skus = << <<"A", "B">>, <<"C">> >>
    /\ diffResponse.body.matchedCount = 0

\* The header is 'Basic ' followed by the base64 of exactly admin:1q2w3e4r.
CarriesValidCredentials(h) ==
    /\ h.present
    /\ StartsWithBasic(h.text)
    /\ LET decoded == atob(SubSeq(h.text, 7, Len(h.text)))
       IN  /\ ~decoded.threw
           /\ decoded.value = BASIC_AUTH_USER \o << ":" >> \o BASIC_AUTH_PASS

\* C16: every request other than a CORS preflight (OPTIONS) that does not
\* carry valid Basic credentials is answered with 401, and for it no API
\* handler runs and no static asset is served.
C16_UnauthorisedGets401 ==
    (/\ gate \in {"route", "done"}
     /\ request.method # "OPTIONS"
     /\ ~CarriesValidCredentials(request.authorization)) =>
        /\ gate = "done"
        /\ answer = 401
        /\ ran = "nothing"

\* Key o has the same entry, or the same absence of one, before and after the step.
SameEntry(obj, objAfter, o) ==
    /\ (o \in DOMAIN obj) <=> (o \in DOMAIN objAfter)
    /\ o \in DOMAIN obj => objAfter[o] = obj[o]

\* C20: a step that changes the pricing rule of one SKU
\* (updateIdentityFromDropdown) leaves that SKU with the chosen rule as its
\* selection and without an override, and leaves the selection and the
\* override of every other SKU, the rounding value, the exchange rate and the
\* product data as they were.
C20_DropdownChangesOneSku ==
    [][lastOp'.op = "dropdown" =>
          LET sku == lastOp'.sku
          IN  /\ sku \in DOMAIN identitySelections'
              /\ identitySelections'[sku] = lastOp'.selection
              /\ sku \notin DOMAIN identityOverrides'
              /\ \A o \in Keys \ {sku} :
                    /\ SameEntry(identitySelections, identitySelections', o)
                    /\ SameEntry(identityOverrides, identityOverrides', o)
              /\ roundingValue' = roundingValue
              /\ exchangeRate' = exchangeRate
              /\ productData' = productData]_vars

\* The rule of A has just been changed to +100 while B holds the rule
\* digitalId and an override of 9.5, with a rounding increment of 0.50 and the
\* rate 1.2.
C20_Witness ==
    /\ loaded
    /\ lastOp.op = "dropdown"
    /\ lastOp.sku = "A"
    /\ lastOp.selection = "+100"
    /\ "A" \in DOMAIN identitySelections
    /\ identitySelections["A"] = "+100"
    /\ "A" \notin DOMAIN identityOverrides
    /\ "B" \in DOMAIN identitySelections
    /\ identitySelections["B"] = "digitalId"
    /\ "B" \in DOMAIN identityOverrides
    /\ identityOverrides["B"] = Num(19, 2)
    /\ roundingValue = Num(1, 2)
    /\ exchangeRate = Num(6, 5)

(***************************************************************************)
(* Client: push of the selected rows to Zoho (assets/script.js)             *)
(***************************************************************************)
\* number.toFixed(2) read back by parseFloat: two decimals, the nearest, a
\* tie going away from zero.
ToFixed2(v) ==
    LET x == ToNumber(v)
    IN  IF IsNum(x)
        THEN LET cents == MathRound(Num(Abs(x.n) * 100, x.d))
             IN  Num((IF x.n < 0 THEN -1 ELSE 1) * cents.n, 100)
        ELSE x

\* The test of one checked row: neither price is null.
ItemIncluded_PriceOnly(identityPrice, costPriceEur) == identityPrice # JSNull

ItemIncluded(identityPrice, costPriceEur) ==
    identityPrice # JSNull /\ costPriceEur # JSNull

\* The body of checkedBoxes.forEach for the rows from position i on (the rows
\* stand in the order of productData).
RECURSIVE ItemsToUpdate(_, _)
ItemsToUpdate(checked, i) ==
    IF i > Len(productData) THEN <<>>
    ELSE
    LET product       == productData[i]
        sku           == product.sku
        identityPrice == getIdentityPrice(sku, product)
        costPriceEur  == gbpToEur(product.set1.cost)
    IN  IF sku \in checked /\ ItemIncluded(identityPrice, costPriceEur)
        THEN << [sku |-> sku, costPrice |-> ToFixed2(costPriceEur),
                 sellingPrice |-> identityPrice] >> \o ItemsToUpdate(checked, i + 1)
        ELSE ItemsToUpdate(checked, i + 1)

\* What the status line shows.
Status(kind, successful, failed, message) ==
    [kind |-> kind, successful |-> successful, failed |-> failed, message |-> message]

\* The outcomes of fetch('/api/zoho/batch-update') and response.json(): the
\* request fails, the body is not JSON, the body carries a top-level error,
\* or it carries one result per item, in the items' order.
RECURSIVE ResultLists(_)
ResultLists(itemList) ==
    IF itemList = <<>> THEN { <<>> }
    ELSE { << r >> \o rest :
             r \in { [sku |-> Head(itemList).sku, success |-> TRUE, error |-> "none"],
                     [sku |-> Head(itemList).sku, success |-> FALSE, error |-> "Item not found"] },
             rest \in ResultLists(Tail(itemList)) }

PushAnswers(itemList) ==
    { [kind |-> "reject",  error |-> "Failed to fetch", results |-> <<>>],
      [kind |-> "badjson", error |-> "Unexpected token", results |-> <<>>],
      [kind |-> "error",   error |-> "invalid_client", results |-> <<>>] }
    \cup { [kind |-> "results", error |-> "none", results |-> r] : r \in ResultLists(itemList) }

\* The try block throws only on a top-level error in the body.
PushThrows_OnlyOnBodyError(data) == data.kind = "error"

\* The try block throws: fetch rejected, response.json() threw, or data.error is set.
PushThrows(data) == data.kind \in {"reject", "badjson", "error"}

\* Every result stamps its SKU, successful or not.
RECURSIVE TimestampsAfter_EveryResult(_, _, _)
TimestampsAfter_EveryResult(stamps, resultList, timestamp) ==
    IF resultList = <<>> THEN stamps
    ELSE TimestampsAfter_EveryResult(Put(stamps, Head(resultList).sku, timestamp),
                                     Tail(resultList), timestamp)

\* if (result.success) zohoUpdateTimestamps[result.sku] = timestamp, over data.results
RECURSIVE TimestampsAfter(_, _, _)
TimestampsAfter(stamps, resultList, timestamp) ==
    IF resultList = <<>> THEN stamps
    ELSE TimestampsAfter(IF Head(resultList).success
                         THEN Put(stamps, Head(resultList).sku, timestamp)
                         ELSE stamps,
                         Tail(resultList), timestamp)

\* The log entry of one result; its prices are those of the item sent.
LogEntry(result, itemList) ==
    LET item == itemList[CHOOSE i \in 1..Len(itemList) :
                            /\ itemList[i].sku = result.sku
                            /\ \A j \in 1..(i - 1) : itemList[j].sku # result.sku]
    IN  [sku |-> result.sku, costPrice |-> item.costPrice,
         sellingPrice |-> item.sellingPrice, success |-> result.success,
         error |-> IF result.success THEN "null" ELSE result.error]

MAX_LOG_ENTRIES == 1000

\* function saveLog(entries): each entry is put in front of the stored logs
\* with the timestamp, and the latest MAX_LOG_ENTRIES are kept.
RECURSIVE Unshifted(_, _, _)
Unshifted(logs, entries, timestamp) ==
    IF entries = <<>> THEN logs
    ELSE Unshifted(<< [timestamp |-> timestamp, entry |-> Head(entries)] >> \o logs,
                   Tail(entries), timestamp)

saveLog(logs, entries, timestamp) ==
    LET all == Unshifted(logs, entries, timestamp)
    IN  SubSeq(all, 1, IF Len(all) > MAX_LOG_ENTRIES THEN MAX_LOG_ENTRIES ELSE Len(all))

NoAnswer == [kind |-> "none", error |-> "none", results |-> <<>>]

PushIdle ==
    /\ pushChecked = {}
    /\ pushPc = "idle"
    /\ pushItems = <<>>
    /\ pushResponse = NoAnswer
    /\ zohoUpdateTimestamps = EmptyMap
    /\ storedLogs = <<>>
    /\ zohoStatus = Status("none", 0, 0, "")
    /\ clock = 1
    /\ pushCount = 0

\* What localStorage holds under ZOHO_TIMESTAMPS_KEY from an earlier visit, if
\* anything: the time 0 for the SKUs pushed then.
StoredTimestamps == { [k \in {"A", "B"} |-> 0] }

\* zohoUpdateTimestamps = loadZohoTimestamps(), the first statement of the
\* DOMContentLoaded listener, when the storage holds an entry.
LoadTimestamps ==
    /\ ~loaded
    /\ zohoUpdateTimestamps = EmptyMap
    /\ \E stored \in StoredTimestamps : zohoUpdateTimestamps' = stored
    /\ UNCHANGED <<pushChecked, pushPc, pushItems, pushResponse, storedLogs, zohoStatus,
                   clock, pushCount>>
    /\ UNCHANGED notPush

\* The page is loaded and prices are set up before the first push.
PushSetup ==
    /\ pushCount = 0
    /\ pushPc = "idle"
    /\ \/ PageLoad
       \/ updateIdentityFromDropdown
       \/ updateIdentityFromInput

\* The click listener of pushSelectedZohoBtn up to the fetch.  The button is
\* disabled while a request is in flight.
PushClick ==
    /\ pushPc = "idle"
    /\ pushCount < MaxPushes
    /\ pushCount' = pushCount + 1
    /\ \E checked \in SUBSET ProductSkus :
        LET itemsToUpdate == ItemsToUpdate(checked, 1)
        IN  /\ pushChecked' = checked
            /\ pushItems' = itemsToUpdate
            /\ IF checked = {}
               THEN /\ zohoStatus' = Status("No items selected", 0, 0, "")
                    /\ pushPc' = "idle"
               ELSE IF itemsToUpdate = <<>>
               THEN /\ zohoStatus' = Status("No items with valid prices", 0, 0, "")
                    /\ pushPc' = "idle"
               ELSE /\ zohoStatus' = Status("Updating", Len(itemsToUpdate), 0, "")
                    /\ pushPc' = "sent"
    /\ pushResponse' = NoAnswer
    /\ UNCHANGED <<zohoUpdateTimestamps, storedLogs, clock>>
    /\ UNCHANGED notPush

\* The rest of the listener, once the request has settled.
PushSettle ==
    /\ pushPc = "sent"
    /\ pushPc' = "idle"
    /\ clock' = clock + 1
    /\ \E data \in PushAnswers(pushItems) :
        /\ pushResponse' = data
        /\ IF PushThrows(data)
           THEN /\ zohoStatus' = Status("Error", 0, 0, data.error)
                /\ UNCHANGED <<zohoUpdateTimestamps, storedLogs>>
           ELSE LET successful == Len(SelectSeq(data.results, LAMBDA r : r.success))
                    failed     == Len(SelectSeq(data.results, LAMBDA r : ~r.success))
                    logEntries == [i \in 1..Len(data.results) |->
                                      LogEntry(data.results[i], pushItems)]
                IN  /\ zohoUpdateTimestamps' =
                          TimestampsAfter(zohoUpdateTimestamps, data.results, clock)
                    /\ storedLogs' = saveLog(storedLogs, logEntries, clock)
                    /\ zohoStatus' = IF failed = 0
                                     THEN Status("Updated", successful, 0, "")
                                     ELSE Status("Updated, failed", successful, failed, "")
    /\ UNCHANGED <<pushChecked, pushItems, pushCount>>
    /\ UNCHANGED notPush

PushNext ==
    \/ LoadTimestamps
    \/ PushSetup
    \/ PushClick
    \/ PushSettle


\* This step is the listener's handling of the settled request.
PushSettled == pushPc = "sent" /\ pushPc' = "idle"

\* The request failed, its answer was not JSON, or it carried a top-level error.
SystemicFailure(data) == data.kind \in {"reject", "badjson", "error"}

\* C21: when the Zoho batch request ends in a systemic failure (the request
\* itself fails or the response carries a top-level error), the client shows
\* that one error message and changes nothing else: no entry of
\* zohoUpdateTimestamps changes and the stored change log gets no entry.
C21_SystemicFailureChangesNothing ==
    [][(PushSettled /\ SystemicFailure(pushResponse')) =>
          /\ zohoStatus' = Status("Error", 0, 0, pushResponse'.error)
          /\ zohoUpdateTimestamps' = zohoUpdateTimestamps
          /\ storedLogs' = storedLogs]_vars

\* A batch of two items was answered with a top-level error while timestamps
\* of an earlier visit were held: they are as they were and nothing is logged.
C21_Witness ==
    /\ pushPc = "idle"
    /\ Len(pushItems) = 2
    /\ pushResponse.kind = "error"
    /\ zohoStatus.kind = "Error"
    /\ zohoStatus.message = "invalid_client"
    /\ zohoUpdateTimestamps \in StoredTimestamps
    /\ storedLogs = <<>>

\* The SKUs whose result in the answer has success = true, and all its SKUs.
Succeeded(data) == { data.results[i].sku : i \in { k \in 1..Len(data.results) : data.results[k].success } }
Answered(data)  == { data.results[i].sku : i \in 1..Len(data.results) }

\* C26: when the client has processed a Zoho batch response with results,
\* zohoUpdateTimestamps holds the one new timestamp for exactly the SKUs whose
\* result has success = true; the entries of the SKUs whose result failed and
\* of every SKU not in the batch are as before (present or absent), and the
\* stored log has one new entry per result, with that timestamp.
C26_StampsExactlyTheSuccesses ==
    [][(PushSettled /\ pushResponse'.kind = "results") =>
          /\ \A sku \in Succeeded(pushResponse') :
                MapGet(zohoUpdateTimestamps', sku) = clock
          /\ \A sku \in (DOMAIN zohoUpdateTimestamps \cup DOMAIN zohoUpdateTimestamps'
                            \cup Answered(pushResponse')) \ Succeeded(pushResponse') :
                /\ sku \in DOMAIN zohoUpdateTimestamps' <=> sku \in DOMAIN zohoUpdateTimestamps
                /\ MapGet(zohoUpdateTimestamps', sku) = MapGet(zohoUpdateTimestamps, sku)
          /\ Len(storedLogs') = Len(storedLogs) + Len(pushResponse'.results)
          /\ \A i \in 1..Len(pushResponse'.results) :
                LET stored == storedLogs'[Len(pushResponse'.results) + 1 - i]
                IN  /\ stored.timestamp = clock
                    /\ stored.entry.sku = pushResponse'.results[i].sku
                    /\ stored.entry.success = pushResponse'.results[i].success
          /\ SubSeq(storedLogs', Len(pushResponse'.results) + 1, Len(storedLogs')) = storedLogs
      ]_vars

\* A and B carried the timestamp 0 of an earlier visit; the batch of A and B
\* came back with A updated and B failed: A has the new timestamp, B still 0,
\* and two entries are logged.
C26_Witness ==
    /\ pushPc = "idle"
    /\ pushResponse.kind = "results"
    /\ Len(pushResponse.results) = 2
    /\ pushResponse.results[1] = [sku |-> "A", success |-> TRUE, error |-> "none"]
    /\ ~pushResponse.results[2].success /\ pushResponse.results[2].sku = "B"
    /\ zohoUpdateTimestamps = [k \in {"A", "B"} |-> IF k = "A" THEN 1 ELSE 0]
    /\ Len(storedLogs) = 2
    /\ zohoStatus = Status("Updated, failed", 1, 1, "")

\* This step is the click on Push to Zoho.
PushClicked == pushCount' = pushCount + 1

\* C27: the Zoho push submits exactly the checked rows whose effective selling
\* price (override or derived) and whose EUR-converted Trade ID cost are both
\* non-null; while no exchange rate is available no request is sent, whatever
\* is checked and whatever overrides are set.
C27_NoRateNoPush ==
    [][PushClicked =>
          /\ \A i \in 1..Len(pushItems') :
                \E k \in 1..Len(productData) :
                    /\ productData[k].sku = pushItems'[i].sku
                    /\ productData[k].sku \in pushChecked'
                    /\ getIdentityPrice(productData[k].sku, productData[k]) # JSNull
                    /\ pushItems'[i].sellingPrice
                          = getIdentityPrice(productData[k].sku, productData[k])
                    /\ gbpToEur(productData[k].set1.cost) # JSNull
          /\ \A k \in 1..Len(productData) :
                (/\ productData[k].sku \in pushChecked'
                 /\ getIdentityPrice(productData[k].sku, productData[k]) # JSNull
                 /\ gbpToEur(productData[k].set1.cost) # JSNull)
                => \E i \in 1..Len(pushItems') : pushItems'[i].sku = productData[k].sku
          /\ pushPc' = "sent" <=> pushItems' # <<>>
          /\ ~Truthy(exchangeRate) => (pushItems' = <<>> /\ pushPc' = "idle")
      ]_vars

\* No exchange rate was loaded, row A carries a manual override and is
\* checked: the click ended with "No items with valid prices" and no request.
C27_Witness ==
    /\ pushCount = 1
    /\ ~Truthy(exchangeRate)
    /\ "A" \in pushChecked
    /\ "A" \in DOMAIN identityOverrides
    /\ pushItems = <<>>
    /\ pushPc = "idle"
    /\ zohoStatus = Status("No items with valid prices", 0, 0, "")

\* The SKUs of the output records.
EmittedSkus == { combined.value[p].sku : p \in 1..Len(combined.value) }

\* C25: whether combineData emits a record for a key depends only on the first
\* occurrence of the key in each list: a record is emitted exactly when both
\* first occurrences exist and carry a cost; a null cost in either first
\* occurrence suppresses the key even when a later duplicate has a valid cost.
C25_FirstOccurrenceDecides ==
    combined.called =>
        \A sku \in SKUS :
            LET i == FirstIndex(tradeIdData, sku)
                j == FirstIndex(digitalIdData, sku)
            IN  /\ (i > 0 /\ tradeIdData[i].price = JSNull) => sku \notin EmittedSkus
                /\ (j > 0 /\ digitalIdData[j].price = JSNull) => sku \notin EmittedSkus
                /\ sku \in EmittedSkus <=>
                      /\ i > 0 /\ tradeIdData[i].price # JSNull
                      /\ j > 0 /\ digitalIdData[j].price # JSNull

\* Digital ID [A:null, A:12] with Trade ID [A:10, A:99]: nothing is emitted,
\* although the second Digital ID record of A has a cost.
C25_Witness ==
    /\ combined.called
    /\ Len(tradeIdData) = 2 /\ Len(digitalIdData) = 2
    /\ tradeIdData[1].sku = "A" /\ tradeIdData[1].price = IntNum(10)
    /\ tradeIdData[2].sku = "A" /\ tradeIdData[2].price = IntNum(99)
    /\ digitalIdData[1] = [sku |-> "A", price |-> JSNull]
    /\ digitalIdData[2] = [sku |-> "A", price |-> IntNum(12)]
    /\ combined.value = <<>>

(***************************************************************************)
(* Promise.all over two read-side fetches (worker and client)               *)
(***************************************************************************)
\* The places where two fetches are awaited together: the two sheets of
\* /api/products and of /api/debug/sku-diff in the worker, exchange rate and
\* products on page load, Shopify and Zoho stock after load in the client.
JoinSites == {"products", "sku-diff", "pageLoad", "stock"}

\* No fetch function catches its own failure.
AbsorbsFailure_Never(site) == FALSE

\* The client's fetch functions catch their own failure and return an empty
\* value (null, [], {}); the worker's fetchSheet throws.
AbsorbsFailure(site) == site \in {"pageLoad", "stock"}

\* The promise of one fetch once the request behind it has ended with raw.
SettledAs(raw, site) ==
    IF raw # "failed" THEN [state |-> "fulfilled", value |-> raw]
    ELSE IF AbsorbsFailure(site) THEN [state |-> "fulfilled", value |-> "empty"]
    ELSE [state |-> "rejected", value |-> "error"]

Pending == [state |-> "pending", value |-> "none"]

NotJoined == [kind |-> "pending", first |-> "none", second |-> "none"]

JoinIdle ==
    /\ joinSite = "none"
    /\ fetched = [w \in {"first", "second"} |-> Pending]
    /\ joinOrder = <<>>
    /\ joinResult = NotJoined

\* Promise.all([first, second]) is called: both requests are under way.
JoinStart ==
    /\ joinSite = "none"
    /\ \E site \in JoinSites : joinSite' = site
    /\ UNCHANGED <<fetched, joinOrder, joinResult>>
    /\ UNCHANGED notJoin

\* One of the two requests ends, with data or with a failure.
FetchSettles ==
    /\ joinSite # "none"
    /\ \E w \in {"first", "second"}, raw \in {"data1", "data2", "failed"} :
        /\ fetched[w] = Pending
        /\ fetched' = [fetched EXCEPT ![w] = SettledAs(raw, joinSite)]
        /\ joinOrder' = Append(joinOrder, [which |-> w, raw |-> raw])
    /\ UNCHANGED <<joinSite, joinResult>>
    /\ UNCHANGED notJoin

\* Promise.all settles: fulfilled once both are, and then the code after the
\* await combines the two values; rejected as soon as one is, and then the
\* handler's catch answers the error.
JoinResolve ==
    /\ joinResult = NotJoined
    /\ \/ /\ \A w \in {"first", "second"} : fetched[w].state = "fulfilled"
          /\ joinResult' = [kind |-> "combined", first |-> fetched["first"].value,
                            second |-> fetched["second"].value]
       \/ /\ \E w \in {"first", "second"} : fetched[w].state = "rejected"
          /\ joinResult' = [kind |-> "failed", first |-> "none", second |-> "none"]
    /\ UNCHANGED <<joinSite, fetched, joinOrder>>
    /\ UNCHANGED notJoin

JoinNext ==
    \/ JoinStart
    \/ FetchSettles
    \/ JoinResolve

\* The requests that have ended, and those that ended in a failure.
Ended(w)      == \E k \in 1..Len(joinOrder) : joinOrder[k].which = w
EndedFailed(w) == \E k \in 1..Len(joinOrder) : joinOrder[k].which = w /\ joinOrder[k].raw = "failed"

Combined == joinResult.kind = "combined"

\* C22 as stated: the combining step runs only after both fetches have
\* completed, and never when one of them failed.
C22_FailureFailsTheJoin ==
    Combined =>
        /\ Ended("first") /\ Ended("second")
        /\ ~EndedFailed("first") /\ ~EndedFailed("second")

\* C22: at each of the four places the combining step runs only after both
\* fetches have completed, in either completion order; in the worker a failed
\* sheet fetch fails the handler without combining, while in the client each
\* fetch absorbs its own failure and the combining step then runs with the
\* empty value in the place of the failed fetch's data.
C22_JoinWaitsForBoth ==
    /\ Combined => Ended("first") /\ Ended("second")
    /\ (Combined /\ joinSite \in {"products", "sku-diff"}) =>
          ~EndedFailed("first") /\ ~EndedFailed("second")
    /\ (joinSite \in {"products", "sku-diff"}
          /\ (EndedFailed("first") \/ EndedFailed("second"))) =>
          joinResult.kind \in {"pending", "failed"}
    /\ (Combined /\ joinSite \in {"pageLoad", "stock"}) =>
          /\ EndedFailed("first") <=> joinResult.first = "empty"
          /\ EndedFailed("second") <=> joinResult.second = "empty"
    /\ joinResult.kind = "failed" =>
          /\ joinSite \in {"products", "sku-diff"}
          /\ EndedFailed("first") \/ EndedFailed("second")

\* On page load the products arrived first, then the exchange-rate request
\* failed: the page went on with the products and no rate.
C22_Witness ==
    /\ joinSite = "pageLoad"
    /\ Len(joinOrder) = 2
    /\ joinOrder[1] = [which |-> "second", raw |-> "data1"]
    /\ joinOrder[2] = [which |-> "first", raw |-> "failed"]
    /\ joinResult = [kind |-> "combined", first |-> "empty", second |-> "data1"]


(***************************************************************************)
(* The user-triggered write operations of the prices tab and their controls *)
(***************************************************************************)
\* The most per-row status requests of one SKU that are followed at once.
MaxRowWrites == 2

WriteSkus == {"A", "B"}

\* The rows of the table in document order, restricted to a set of SKUs.
RowsOf(S) == SelectSeq(<<"A", "B">>, LAMBDA s : s \in S)

\* What the page holds when the user acts: the stored Shopify token, the SKUs
\* with a Shopify product id, with a Zoho stock quantity and with both prices.
WritePages ==
    { [loaded |-> TRUE, token |-> TRUE,  ids |-> {"A", "B"}, stock |-> {"A", "B"}, priced |-> {"A", "B"}],
      [loaded |-> TRUE, token |-> TRUE,  ids |-> {"A"},      stock |-> {"A"},      priced |-> {"A"}],
      [loaded |-> TRUE, token |-> FALSE, ids |-> {},         stock |-> {"B"},      priced |-> {"A", "B"}] }

NotLoaded == [loaded |-> FALSE, token |-> FALSE, ids |-> {}, stock |-> {}, priced |-> {}]

BatchOps == {"push", "match", "batchStatus"}

NotRunning == [items |-> <<>>, done |-> 0]

\* A batch is in flight from the moment its control is disabled until the
\* response of its last request has been handled.
Running(op) == wBatch[op].done < Len(wBatch[op].items)

\* The control of a running batch is disabled.
ControlEnabled(op) == ~Running(op)

WritesIdle ==
    /\ wPage = NotLoaded
    /\ wBatch = [op \in BatchOps |-> NotRunning]
    /\ wRow = [s \in WriteSkus |-> 0]
    /\ wRowDisabled = {}

WritesLoad ==
    /\ ~wPage.loaded
    /\ \E page \in WritePages : wPage' = page
    /\ UNCHANGED <<wBatch, wRow, wRowDisabled>>
    /\ UNCHANGED notWrites

\* The items a batch gathers from the checked rows.
ItemsOf(op, checked) ==
    CASE op = "push"        -> RowsOf(checked \cap wPage.priced)
      [] op = "match"       -> IF wPage.token THEN RowsOf(checked \cap wPage.stock) ELSE <<>>
      [] op = "batchStatus" -> IF wPage.token THEN RowsOf(checked \cap wPage.ids) ELSE <<>>

\* A click on Push to Zoho or Match Stock, or a change of the batch status
\* selector: with no item to update the listener returns, otherwise it
\* disables its own control and sends the first request.
BatchStarts ==
    /\ wPage.loaded
    /\ \E op \in BatchOps, checked \in SUBSET WriteSkus :
        /\ ControlEnabled(op)
        /\ wBatch' = [wBatch EXCEPT ![op] = [items |-> ItemsOf(op, checked), done |-> 0]]
    /\ UNCHANGED <<wPage, wRow, wRowDisabled>>
    /\ UNCHANGED notWrites

\* The response of the request in flight arrives: the Zoho push is one request
\* for all its items, the two Shopify batches send one request per item.
BatchResponse ==
    /\ \E op \in BatchOps :
        /\ Running(op)
        /\ wBatch' = [wBatch EXCEPT ![op].done =
                        IF op = "push" THEN Len(wBatch[op].items) ELSE @ + 1]
    /\ UNCHANGED <<wPage, wRow, wRowDisabled>>
    /\ UNCHANGED notWrites

\* The status select of one row is changed: updateShopifyStatus disables that
\* select element and sends its request.
updateShopifyStatus ==
    /\ wPage.loaded
    /\ \E sku \in WriteSkus :
        /\ sku \notin wRowDisabled
        /\ wRow[sku] < MaxRowWrites
        /\ IF wPage.token /\ sku \in wPage.ids
           THEN /\ wRow' = [wRow EXCEPT ![sku] = @ + 1]
                /\ wRowDisabled' = wRowDisabled \cup {sku}
           ELSE UNCHANGED <<wRow, wRowDisabled>>
    /\ UNCHANGED <<wPage, wBatch>>
    /\ UNCHANGED notWrites

\* The response of a per-row request arrives; the select element it re-enables
\* is the one it was called with.
RowResponse ==
    /\ \E sku \in WriteSkus :
        /\ wRow[sku] > 0
        /\ wRow' = [wRow EXCEPT ![sku] = @ - 1]
        /\ wRowDisabled' = IF wRow[sku] = 1 THEN wRowDisabled \ {sku} ELSE wRowDisabled
    /\ UNCHANGED <<wPage, wBatch>>
    /\ UNCHANGED notWrites

\* A filter, page or sort change renders the table again: every row gets a new,
\* enabled status select.
renderTable ==
    /\ wPage.loaded
    /\ wRowDisabled # {}
    /\ wRowDisabled' = {}
    /\ UNCHANGED <<wPage, wBatch, wRow>>
    /\ UNCHANGED notWrites

WritesNext ==
    \/ WritesLoad
    \/ BatchStarts
    \/ BatchResponse
    \/ updateShopifyStatus
    \/ RowResponse
    \/ renderTable

\* The number of write operations in flight that affect one SKU.
ItemSet(op) == { wBatch[op].items[k] : k \in 1..Len(wBatch[op].items) }
InFlightOn(sku) == Cardinality({ op \in BatchOps : Running(op) /\ sku \in ItemSet(op) }) + wRow[sku]

\* C23: there are never two write operations in flight at the same time that
\* affect the same SKU.
C23_WritesSerializedPerSku ==
    \A sku \in WriteSkus : InFlightOn(sku) <= 1

\* What the controls do guarantee: a batch is in flight at most once, because
\* its own control is disabled while it runs (an action property).
C23_SameBatchNeverTwice ==
    [][\A op \in BatchOps : Running(op) => wBatch'[op].items = wBatch[op].items]_vars

\* A batch status change over A and B is waiting for the response of its
\* first request while the status select of row A has a request in flight.
C23_BatchAndRowOverlap ==
    /\ Running("batchStatus")
    /\ wBatch["batchStatus"] = [items |-> <<"A", "B">>, done |-> 0]
    /\ wRow["A"] = 1
    /\ ~Running("match") /\ ~Running("push")


(***************************************************************************)
(* rewriteWithLlm's reading of the LLM output and the rewriteSelected loop  *)
(***************************************************************************)
\* An LLM output is a sequence of pieces of text: "fence" is three backticks,
\* "json" the word after an opening fence, " " white space (trimmed by Trim), "obj" a complete
\* JSON object, "num" and "null" other JSON values, "bad" a brace-delimited
\* text that is not JSON, "trunc" an object cut off before its closing brace,
\* "txt" prose without braces.
EmptyOutputs == { <<>> }

UnparseableOutputs ==
    { <<" ">>, <<"txt">>, <<"bad">>, <<"trunc">>,
      <<"fence", "json", " ", "trunc">>,
      <<"fence", "json", " ", "bad", " ", "fence">>,
      <<"obj", "txt", "obj">>, <<"txt", "trunc", "txt">> }

PlainObjectOutputs == { <<"obj">>, <<" ", "obj", " ">> }

Fenced(inner) == <<"fence", "json", " ">> \o inner \o <<" ", "fence">>

FencedObjectOutputs ==
    { Fenced(inner) : inner \in PlainObjectOutputs } \cup { <<"fence", " ", "obj", " ", "fence">> }

OtherOutputs == { <<"txt", "obj", "txt">>, <<"num">>, <<"null">> }

LlmOutputs ==
    EmptyOutputs \cup UnparseableOutputs \cup PlainObjectOutputs
        \cup FencedObjectOutputs \cup OtherOutputs

\* result.trim().replace(/^```json\s*/i, '').replace(/^```\s*/i, '')
\*       .replace(/\s*```$/i, '').trim()
CleanedResult(result) ==
    LET trimmed == Trim(result)
        noJson  == IF Len(trimmed) >= 2 /\ trimmed[1] = "fence" /\ trimmed[2] = "json"
                   THEN SkipWs(SubSeq(trimmed, 3, Len(trimmed))) ELSE trimmed
        noOpen  == IF noJson # <<>> /\ noJson[1] = "fence"
                   THEN SkipWs(Tail(noJson)) ELSE noJson
        noClose == IF noOpen # <<>> /\ noOpen[Len(noOpen)] = "fence"
                   THEN TrimEnd(SubSeq(noOpen, 1, Len(noOpen) - 1)) ELSE noOpen
    IN  Trim(noClose)

\* JSON.parse: white space around the one value is allowed.
JsonParse(text) ==
    LET inner == Trim(text)
    IN  IF Len(inner) = 1 /\ inner[1] \in {"obj", "num", "null"}
        THEN [threw |-> FALSE, value |-> inner[1]]
        ELSE [threw |-> TRUE, value |-> "SyntaxError"]

\* cleanedResult.match(/\{[\s\S]*\}/): from the first opening brace to the last
\* closing brace after it; <<>> stands for no match.
BraceMatch(text) ==
    LET opens  == { k \in 1..Len(text) : text[k] \in {"obj", "bad", "trunc"} }
        first  == CHOOSE k \in opens : \A j \in opens : k <= j
        closes == { k \in 1..Len(text) : text[k] \in {"obj", "bad"} /\ k >= first }
        last   == CHOOSE k \in closes : \A j \in closes : k >= j
    IN  IF opens = {} THEN <<>>
        ELSE IF closes = {} THEN <<>>
        ELSE SubSeq(text, first, last)

\* Reading a property of the got value throws on null.
ReadParsed(got) ==
    got.threw \/ got.value = "null"

LlmThrew(message) == [threw |-> TRUE, value |-> message]

\* rewriteWithLlm, from the raw response on; apiOk is FALSE when the call to
\* the provider threw.
rewriteWithLlm(apiOk, result) ==
    IF ~apiOk THEN LlmThrew("API error")
    ELSE IF result = <<>> THEN LlmThrew("LLM returned empty response")
    ELSE LET cleaned == CleanedResult(result)
             direct  == JsonParse(cleaned)
             match   == BraceMatch(cleaned)
             second  == JsonParse(match)
         IN  IF ~ReadParsed(direct) THEN direct
             ELSE IF match # <<>>
                  THEN IF ~ReadParsed(second) THEN second
                       ELSE LlmThrew("Failed to parse LLM response as JSON")
                  ELSE LlmThrew("Invalid response format from LLM")

\* One entry of rewrittenData: the fields of the last object merged in, and
\* updatedAt (0 with fields "none" is an absent entry).
NoRewrite == [fields |-> "none", updatedAt |-> 0]

\* Every handled item is stamped, also a failed one.
RewrittenAfter_StampsFailure(data, sku, outcome, now) ==
    [data EXCEPT ![sku] = [fields |-> IF outcome.threw \/ outcome.value # "obj"
                                      THEN @.fields ELSE "obj",
                           updatedAt |-> now]]

\* rewrittenData[sku] = { ...rewrittenData[sku], ...result, updatedAt }, which
\* the throw of rewriteWithLlm skips; spreading a number adds no field.
RewrittenAfter(data, sku, outcome, now) ==
    IF outcome.threw THEN data
    ELSE [data EXCEPT ![sku] = [fields |-> IF outcome.value = "obj" THEN "obj" ELSE @.fields,
                                updatedAt |-> now]]

RewriteSkus == {"A", "B", "C"}

\* The stored rewrites loadRewrittenData finds.
StoredRewrites ==
    { [s \in RewriteSkus |-> NoRewrite],
      [s \in RewriteSkus |-> IF s = "A" THEN [fields |-> "old", updatedAt |-> 1] ELSE NoRewrite] }

NoOutput == [sku |-> "none", apiOk |-> TRUE, output |-> <<>>]

RewriteIdle ==
    /\ rwPc = "idle"
    /\ rwSkus = <<>>
    /\ rwIndex = 1
    /\ rwCount = [success |-> 0, failed |-> 0]
    /\ rewrittenData = [s \in RewriteSkus |-> NoRewrite]
    /\ rwClock = 2
    /\ rwLast = NoOutput

loadRewrittenData ==
    /\ rwPc = "idle"
    /\ \E stored \in StoredRewrites :
        /\ stored # rewrittenData
        /\ rewrittenData' = stored
    /\ rewrittenData = [s \in RewriteSkus |-> NoRewrite]
    /\ UNCHANGED <<rwPc, rwSkus, rwIndex, rwCount, rwClock, rwLast>>
    /\ UNCHANGED notRewrite

\* The selected rows are rows of descriptionsData, in table order.
rewriteSelected ==
    /\ rwPc = "idle"
    /\ \E selected \in SUBSET RewriteSkus, keys \in BOOLEAN :
        LET skus == SelectSeq(<<"A", "B", "C">>, LAMBDA s : s \in selected)
        IN  /\ rwSkus' = skus
            /\ rwPc' = IF skus = <<>> \/ ~keys THEN "returned" ELSE "running"
    /\ UNCHANGED <<rwIndex, rwCount, rewrittenData, rwClock, rwLast>>
    /\ UNCHANGED notRewrite

\* One iteration of the loop: the answer for rwSkus[rwIndex] is handled.
RewriteItem ==
    /\ rwPc = "running"
    /\ rwIndex <= Len(rwSkus)
    /\ \E apiOk \in BOOLEAN, output \in LlmOutputs :
        LET sku     == rwSkus[rwIndex]
            outcome == rewriteWithLlm(apiOk, output)
        IN  /\ rewrittenData' = RewrittenAfter(rewrittenData, sku, outcome, rwClock)
            /\ rwCount' = IF outcome.threw
                          THEN [rwCount EXCEPT !.failed = @ + 1]
                          ELSE [rwCount EXCEPT !.success = @ + 1]
            /\ rwLast' = [sku |-> sku, apiOk |-> apiOk, output |-> output]
    /\ rwIndex' = rwIndex + 1
    /\ rwClock' = rwClock + 1
    /\ UNCHANGED <<rwPc, rwSkus>>
    /\ UNCHANGED notRewrite

\* After the loop: saveRewrittenData, the button is enabled again and the
\* status line shows the two counts.
RewriteFinish ==
    /\ rwPc = "running"
    /\ rwIndex > Len(rwSkus)
    /\ rwPc' = "done"
    /\ UNCHANGED <<rwSkus, rwIndex, rwCount, rewrittenData, rwClock, rwLast>>
    /\ UNCHANGED notRewrite

RewriteNext ==
    \/ loadRewrittenData
    \/ rewriteSelected
    \/ RewriteItem
    \/ RewriteFinish

RewriteItemHandled == rwIndex' = rwIndex + 1

UnfencedOutputs ==
    { o \in LlmOutputs : \A k \in 1..Len(o) : o[k] # "fence" }

\* C24: in a batch rewrite a code fence around the output makes no difference
\* to what is got, and an empty or unparseable output (the provider's call
\* having succeeded or not) counts as the failure of its own item only:
\* rewrittenData is unchanged, the loop goes on with the next SKU, and the
\* batch ends with every selected SKU counted once.
C24_BadOutputFailsOneItem ==
    [][/\ RewriteItemHandled =>
            /\ rwPc' = "running"
            /\ rwLast'.sku = rwSkus[rwIndex]
            /\ (rwLast'.output \in FencedObjectOutputs /\ rwLast'.apiOk) =>
                  /\ rwCount' = [rwCount EXCEPT !.success = @ + 1]
                  /\ rewrittenData' = [rewrittenData EXCEPT ![rwLast'.sku] =
                                         [fields |-> "obj", updatedAt |-> rwClock]]
            /\ (rwLast'.output \in EmptyOutputs \cup UnparseableOutputs) =>
                  /\ rwCount' = [rwCount EXCEPT !.failed = @ + 1]
                  /\ rewrittenData' = rewrittenData
       /\ (rwPc' = "done") =>
            /\ rwIndex = Len(rwSkus) + 1
            /\ rwCount.success + rwCount.failed = Len(rwSkus)
       /\ \A inner \in UnfencedOutputs :
              CleanedResult(Fenced(inner)) = Trim(inner)
      ]_vars

\* A, B and C were selected; B's output was a truncated object inside a code
\* fence and counted as a failure, A (rewritten on an earlier visit) and C
\* came back as fenced objects.
C24_Witness ==
    /\ rwPc = "done"
    /\ rwSkus = <<"A", "B", "C">>
    /\ rwCount = [success |-> 2, failed |-> 1]
    /\ rewrittenData["A"] = [fields |-> "obj", updatedAt |-> 2]
    /\ rewrittenData["B"] = NoRewrite
    /\ rewrittenData["C"] = [fields |-> "obj", updatedAt |-> 4]
    /\ rwLast.output = Fenced(<<"obj">>)


(***************************************************************************)
(* Background stock fetch of the page load and the match-stock batch        *)
(***************************************************************************)
StockSkus == {"A", "B"}

\* The stock Shopify holds when the page is opened.
ShopifyStockAtLoad == [s \in StockSkus |-> 5]

\* What fetchZohoStock resolves to: the stock per SKU, or {} after a failure.
ZohoStockAnswers == { [s \in StockSkus |-> 7], EmptyMap }

NoSnapshot == [taken |-> FALSE, stock |-> EmptyMap]

NoMatch == [items |-> <<>>, at |-> 1]

StockIdle ==
    /\ stPc = "start"
    /\ stSnapshot = NoSnapshot
    /\ shopifyStockData = EmptyMap
    /\ zohoStockData = EmptyMap
    /\ remoteStock = ShopifyStockAtLoad
    /\ zohoStockOverrides = EmptyMap
    /\ stMatch = NoMatch
    /\ lastMatched = EmptyMap

\* The page-load listener after the first render: the two stock requests are
\* sent and the listener returns (a Shopify token is stored).
StockPageLoad ==
    /\ stPc = "start"
    /\ stPc' = "fetching"
    /\ UNCHANGED <<stSnapshot, shopifyStockData, zohoStockData, remoteStock,
                   zohoStockOverrides, stMatch, lastMatched>>
    /\ UNCHANGED notStock

\* /api/shopify/stock reads the stock at Shopify, or fails, in which case
\* fetchShopifyStock resolves to an empty stock object.
ShopifyStockRead ==
    /\ stPc = "fetching"
    /\ ~stSnapshot.taken
    /\ \E ok \in BOOLEAN :
        stSnapshot' = [taken |-> TRUE, stock |-> IF ok THEN remoteStock ELSE EmptyMap]
    /\ UNCHANGED <<stPc, shopifyStockData, zohoStockData, remoteStock,
                   zohoStockOverrides, stMatch, lastMatched>>
    /\ UNCHANGED notStock

\* shopifyStockData = shopifyData.stock
StockAfterFetch(local, snapshot) == snapshot

\* The callback of Promise.all([fetchShopifyStock(), fetchZohoStock()]).then
StockFetched ==
    /\ stPc = "fetching"
    /\ stSnapshot.taken
    /\ stPc' = "loaded"
    /\ shopifyStockData' = StockAfterFetch(shopifyStockData, stSnapshot.stock)
    /\ \E zohoStock \in ZohoStockAnswers : zohoStockData' = zohoStock
    /\ UNCHANGED <<stSnapshot, remoteStock, zohoStockOverrides, stMatch, lastMatched>>
    /\ UNCHANGED notStock

\* The user types a quantity into the Zoho stock input of a row.
ZohoStockInput ==
    /\ stPc # "start"
    /\ \E sku \in StockSkus :
        /\ sku \notin DOMAIN zohoStockOverrides
        /\ zohoStockOverrides' = Put(zohoStockOverrides, sku, 3)
    /\ UNCHANGED <<stPc, stSnapshot, shopifyStockData, zohoStockData, remoteStock,
                   stMatch, lastMatched>>
    /\ UNCHANGED notStock

\* The quantity the match-stock listener takes for a row: the override if
\* there is one, otherwise the fetched Zoho stock.
MatchQuantity(sku) ==
    IF sku \in DOMAIN zohoStockOverrides THEN zohoStockOverrides[sku]
    ELSE zohoStockData[sku]

\* quantity !== undefined && quantity !== null
HasQuantity(sku) == sku \in DOMAIN zohoStockOverrides \cup DOMAIN zohoStockData

\* The click on Match Stock: the checked rows with a quantity become the items,
\* the button is disabled and the first request is sent.
matchStockClick ==
    /\ stPc # "start"
    /\ stMatch.at > Len(stMatch.items)
    /\ \E checked \in SUBSET StockSkus :
        LET withStock == SelectSeq(<<"A", "B">>, LAMBDA s : s \in checked /\ HasQuantity(s))
        IN  stMatch' = [items |-> [i \in 1..Len(withStock) |->
                                     [sku |-> withStock[i], quantity |-> MatchQuantity(withStock[i])]],
                        at |-> 1]
    /\ UNCHANGED <<stPc, stSnapshot, shopifyStockData, zohoStockData, remoteStock,
                   zohoStockOverrides, lastMatched>>
    /\ UNCHANGED notStock

\* The answer of /api/shopify/update-stock for the current item: on success
\* Shopify holds the quantity and shopifyStockData[item.sku] = item.quantity.
MatchStockResponse ==
    /\ stMatch.at <= Len(stMatch.items)
    /\ LET item == stMatch.items[stMatch.at]
       IN  \E ok \in BOOLEAN :
            IF ok
            THEN /\ remoteStock' = [remoteStock EXCEPT ![item.sku] = item.quantity]
                 /\ shopifyStockData' = Put(shopifyStockData, item.sku, item.quantity)
                 /\ lastMatched' = Put(lastMatched, item.sku, item.quantity)
            ELSE UNCHANGED <<remoteStock, shopifyStockData, lastMatched>>
    /\ stMatch' = [stMatch EXCEPT !.at = @ + 1]
    /\ UNCHANGED <<stPc, stSnapshot, zohoStockData, zohoStockOverrides>>
    /\ UNCHANGED notStock

StockNext ==
    \/ StockPageLoad
    \/ ShopifyStockRead
    \/ StockFetched
    \/ ZohoStockInput
    \/ matchStockClick
    \/ MatchStockResponse

\* C28: once the match-stock batch has recorded a successful update of SKU s
\* to quantity q, the locally held Shopify stock of s is q, the latest such
\* quantity, in every later state; the completion of the background stock
\* fetch does not replace it.
C28_MatchedStockIsKept ==
    \A s \in DOMAIN lastMatched :
        s \in DOMAIN shopifyStockData /\ shopifyStockData[s] = lastMatched[s]

\* The Shopify stock was read (5 for A) before the match-stock batch set A to
\* 3; the answer of the background fetch arrived afterwards and put the 5 back.
C28_StaleStockOverwrites ==
    /\ stPc = "loaded"
    /\ "A" \in DOMAIN lastMatched /\ lastMatched["A"] = 3
    /\ remoteStock["A"] = 3
    /\ "A" \in DOMAIN shopifyStockData /\ shopifyStockData["A"] = 5


(***************************************************************************)
(* syncSelectedToShopify and syncProductToShopify                           *)
(***************************************************************************)
SyncSkus == {"A", "B", "C"}

\* The latest time (as counted by syClock) at which a sync batch is started.
MaxSyncStart == 2

\* An error text of /api/shopify/sync, as the set of the phrases it contains
\* of those the client looks for.
SyncErrors == { {"401"}, {"Unauthorized"}, {"access token"}, {"not found"}, {} }

\* The answers to one request: fetch rejects, or the body has or has no error.
SyncAnswers ==
    { [kind |-> "reject", error |-> {}], [kind |-> "ok", error |-> {}] }
        \cup { [kind |-> "error", error |-> e] : e \in SyncErrors }

\* The request is sent whether or not a token is stored.
HasToken_Unchecked(token) == TRUE

\* const token = getShopifyToken(); if (!token) throw new Error('Not connected to Shopify')
HasToken(token) == token

\* data.error.includes('401') || data.error.includes('Unauthorized')
\*     || data.error.includes('access token')
TokenInvalid(error) == error \cap {"401", "Unauthorized", "access token"} # {}

\* The sync timestamps stored by an earlier visit (0: never synced).
SyncedBefore == { [s \in SyncSkus |-> 0], [s \in SyncSkus |-> IF s = "C" THEN 1 ELSE 0] }

SyncIdle ==
    /\ syPc = "idle"
    /\ syToken = FALSE
    /\ syItems = <<>>
    /\ syIndex = 1
    /\ successItems = <<>>
    /\ failedItems = <<>>
    /\ syncedAt = [s \in SyncSkus |-> 0]
    /\ syRequested = {}
    /\ syClearedAt = 0
    /\ syClock = 2

\* The page is opened after the OAuth round trip (handleShopifyOAuthReturn
\* stores the token) with the rewritten data of an earlier visit.
SyncConnect ==
    /\ syPc = "idle"
    /\ ~syToken
    /\ syItems = <<>>
    /\ syToken' = TRUE
    /\ \E before \in SyncedBefore : syncedAt' = before
    /\ UNCHANGED <<syPc, syItems, syIndex, successItems, failedItems, syRequested,
                   syClearedAt, syClock>>
    /\ UNCHANGED notSync

\* The click on the sync button: without a token the OAuth flow starts;
\* withContent are the selected SKUs that have rewritten content.
syncSelectedToShopify ==
    /\ syPc = "idle"
    /\ syClock <= MaxSyncStart
    /\ \E selected \in SUBSET SyncSkus, withContent \in SUBSET SyncSkus :
        LET itemsToSync == SelectSeq(<<"A", "B", "C">>,
                                     LAMBDA s : s \in selected \cap withContent)
        IN  IF ~syToken THEN /\ syPc' = "redirected"
                             /\ UNCHANGED syItems
            ELSE /\ syItems' = itemsToSync
                 /\ syPc' = IF itemsToSync = <<>> THEN "idle" ELSE "running"
    /\ syIndex' = 1
    /\ successItems' = <<>>
    /\ failedItems' = <<>>
    /\ syRequested' = {}
    /\ syClearedAt' = 0
    /\ UNCHANGED <<syToken, syncedAt, syClock>>
    /\ UNCHANGED notSync

\* One iteration of the loop with syncProductToShopify inlined: without a
\* token it throws before the fetch; otherwise the request is sent and its
\* answer handled.
SyncItem ==
    /\ syPc = "running"
    /\ syIndex <= Len(syItems)
    /\ LET sku == syItems[syIndex]
       IN  IF ~HasToken(syToken)
           THEN /\ failedItems' = Append(failedItems, sku)
                /\ UNCHANGED <<syToken, successItems, syncedAt, syRequested, syClearedAt>>
           ELSE /\ syRequested' = syRequested \cup {syIndex}
                /\ \E data \in SyncAnswers :
                    IF data.kind = "ok"
                    THEN /\ syncedAt' = [syncedAt EXCEPT ![sku] = syClock]
                         /\ successItems' = Append(successItems, sku)
                         /\ UNCHANGED <<syToken, failedItems, syClearedAt>>
                    ELSE /\ failedItems' = Append(failedItems, sku)
                         /\ IF data.kind = "error" /\ TokenInvalid(data.error)
                            THEN /\ syToken' = FALSE
                                 /\ syClearedAt' = syIndex
                            ELSE UNCHANGED <<syToken, syClearedAt>>
                         /\ UNCHANGED <<successItems, syncedAt>>
    /\ syIndex' = syIndex + 1
    /\ syClock' = syClock + 1
    /\ UNCHANGED <<syPc, syItems>>
    /\ UNCHANGED notSync

\* After the loop: saveRewrittenData, the table is rendered and the button is
\* enabled again.
SyncFinish ==
    /\ syPc = "running"
    /\ syIndex > Len(syItems)
    /\ syPc' = "idle"
    /\ UNCHANGED <<syToken, syItems, syIndex, successItems, failedItems, syncedAt,
                   syRequested, syClearedAt, syClock>>
    /\ UNCHANGED notSync

SyncNext ==
    \/ SyncConnect
    \/ syncSelectedToShopify
    \/ SyncItem
    \/ SyncFinish

SeqToSet(list) == { list[k] : k \in 1..Len(list) }

\* C29: during syncSelectedToShopify, once the answer for an item has made
\* the client clear the stored Shopify token, no request is sent for any later
\* item and each later item visited is recorded as failed; the loop visits
\* every item, so the successful and the failed items together are the items
\* visited (all of them at the end), and syncedAt is set in a step only for
\* the item that step recorded as successful.
C29_NoRequestAfterTokenCleared ==
    [][/\ (syPc = "running" /\ syClearedAt > 0) =>
            /\ ~syToken
            /\ \A i \in syRequested' : i <= syClearedAt
            /\ \A i \in (syClearedAt + 1)..(syIndex' - 1) :
                  syItems[i] \in SeqToSet(failedItems')
       /\ syPc' = "running" =>
            /\ Len(successItems') + Len(failedItems') = syIndex' - 1
            /\ SeqToSet(successItems') \cap SeqToSet(failedItems') = {}
       /\ (syPc = "running" /\ syPc' = "idle") =>
            Len(successItems) + Len(failedItems) = Len(syItems)
       /\ syPc = "running" =>
            \A s \in SyncSkus :
                syncedAt'[s] # syncedAt[s] =>
                    /\ s \in SeqToSet(successItems') \ SeqToSet(successItems)
                    /\ syncedAt'[s] = syClock
      ]_vars

\* A, B and C were synced: A succeeded, the answer for B said Unauthorized and
\* the token was cleared, C failed without a request; only A has a new
\* timestamp, C keeps the one of an earlier visit.
C29_Witness ==
    /\ syPc = "idle"
    /\ syItems = <<"A", "B", "C">>
    /\ successItems = <<"A">>
    /\ failedItems = <<"B", "C">>
    /\ syClearedAt = 2
    /\ syRequested = {1, 2}
    /\ ~syToken
    /\ syncedAt = [s \in SyncSkus |-> IF s = "A" THEN 2 ELSE IF s = "C" THEN 1 ELSE 0]


(***************************************************************************)
(* initDescriptionsTab: loading the descriptions data                       *)
(***************************************************************************)
\* The most activations of the descriptions tab that are followed.
MaxActivations == 3

\* What fetchDescriptionsData resolves to: the list served, or [] when the
\* request failed (the function catches the failure).
DescriptionAnswers == {"data1", "data2", "empty"}

DescIdle ==
    /\ descDataLoaded = FALSE
    /\ descriptionsData = "empty"
    /\ descCalls = <<>>
    /\ descPending = {}
    /\ descFetches = 0

\* initDescriptionsTab is called, by the 'descriptions-tab-activated' event or
\* by a click on the tab: unless descDataLoaded is set, it sends the request
\* and waits for it.
initDescriptionsTab ==
    /\ Len(descCalls) < MaxActivations
    /\ \E source \in {"event", "click"} :
        descCalls' = Append(descCalls, source)
    /\ IF ~descDataLoaded
       THEN /\ descPending' = descPending \cup {Len(descCalls) + 1}
            /\ descFetches' = descFetches + 1
       ELSE UNCHANGED <<descPending, descFetches>>
    /\ UNCHANGED <<descDataLoaded, descriptionsData>>
    /\ UNCHANGED notDesc

\* The fetch of one waiting call settles and the call goes on after its await:
\* descriptionsData is assigned and descDataLoaded is set.
DescriptionsFetched ==
    /\ \E call \in descPending, data \in DescriptionAnswers :
        /\ descPending' = descPending \ {call}
        /\ descriptionsData' = data
    /\ descDataLoaded' = TRUE
    /\ UNCHANGED <<descCalls, descFetches>>
    /\ UNCHANGED notDesc

DescNext ==
    \/ initDescriptionsTab
    \/ DescriptionsFetched

\* C30: the descriptions data is requested from /api/descriptions at most
\* once per page lifetime, whatever the order and timing of the activations.
C30_FetchedAtMostOnce ==
    descFetches <= 1

\* What the flag does guarantee: no request is sent once a fetch has settled,
\* also when it failed (an action property).
C30_NoFetchOnceLoaded ==
    [][descDataLoaded => descFetches' = descFetches /\ descDataLoaded']_vars

\* The event and the click both called initDescriptionsTab before the first
\* answer arrived: two requests were sent, and the second answer replaced the
\* data of the first.
C30_TwoFetchesInFlight ==
    /\ descCalls = <<"event", "click">>
    /\ descFetches = 2
    /\ descPending = {}
    /\ descDataLoaded
    /\ descriptionsData = "data2"


InitBatch == BatchInit /\ ParseIdle /\ CombineIdle /\ PriceIdle /\ DiffIdle /\ GateIdle /\ PushIdle /\ JoinIdle /\ WritesIdle /\ RewriteIdle /\ StockIdle /\ SyncIdle /\ DescIdle

SpecBatch == InitBatch /\ [][BatchNext]_vars

InitParse == BatchInit /\ ParseIdle /\ CombineIdle /\ PriceIdle /\ DiffIdle /\ GateIdle /\ PushIdle /\ JoinIdle /\ WritesIdle /\ RewriteIdle /\ StockIdle /\ SyncIdle /\ DescIdle

SpecParse == InitParse /\ [][ParseNext]_vars

InitCombine == BatchInit /\ ParseIdle /\ CombineIdle /\ PriceIdle /\ DiffIdle /\ GateIdle /\ PushIdle /\ JoinIdle /\ WritesIdle /\ RewriteIdle /\ StockIdle /\ SyncIdle /\ DescIdle

SpecCombine == InitCombine /\ [][CombineNext]_vars

InitPrice == BatchInit /\ ParseIdle /\ CombineIdle /\ PriceIdle /\ DiffIdle /\ GateIdle /\ PushIdle /\ JoinIdle /\ WritesIdle /\ RewriteIdle /\ StockIdle /\ SyncIdle /\ DescIdle

SpecPrice == InitPrice /\ [][PriceNext]_vars

InitDiff == BatchInit /\ ParseIdle /\ CombineIdle /\ PriceIdle /\ DiffIdle /\ GateIdle /\ PushIdle /\ JoinIdle /\ WritesIdle /\ RewriteIdle /\ StockIdle /\ SyncIdle /\ DescIdle

SpecDiff == InitDiff /\ [][DiffNext]_vars

InitGate == BatchInit /\ ParseIdle /\ CombineIdle /\ PriceIdle /\ DiffIdle /\ GateIdle /\ PushIdle /\ JoinIdle /\ WritesIdle /\ RewriteIdle /\ StockIdle /\ SyncIdle /\ DescIdle

SpecGate == InitGate /\ [][GateNext]_vars

InitPush == BatchInit /\ ParseIdle /\ CombineIdle /\ PriceIdle /\ DiffIdle /\ GateIdle /\ PushIdle /\ JoinIdle /\ WritesIdle /\ RewriteIdle /\ StockIdle /\ SyncIdle /\ DescIdle

SpecPush == InitPush /\ [][PushNext]_vars

InitJoin == BatchInit /\ ParseIdle /\ CombineIdle /\ PriceIdle /\ DiffIdle /\ GateIdle /\ PushIdle /\ JoinIdle /\ WritesIdle /\ RewriteIdle /\ StockIdle /\ SyncIdle /\ DescIdle

SpecJoin == InitJoin /\ [][JoinNext]_vars

InitWrites == BatchInit /\ ParseIdle /\ CombineIdle /\ PriceIdle /\ DiffIdle /\ GateIdle /\ PushIdle /\ JoinIdle /\ WritesIdle /\ RewriteIdle /\ StockIdle /\ SyncIdle /\ DescIdle

SpecWrites == InitWrites /\ [][WritesNext]_vars

InitRewrite == BatchInit /\ ParseIdle /\ CombineIdle /\ PriceIdle /\ DiffIdle /\ GateIdle /\ PushIdle /\ JoinIdle /\ WritesIdle /\ RewriteIdle /\ StockIdle /\ SyncIdle /\ DescIdle

SpecRewrite == InitRewrite /\ [][RewriteNext]_vars

InitStock == BatchInit /\ ParseIdle /\ CombineIdle /\ PriceIdle /\ DiffIdle /\ GateIdle /\ PushIdle /\ JoinIdle /\ WritesIdle /\ RewriteIdle /\ StockIdle /\ SyncIdle /\ DescIdle

SpecStock == InitStock /\ [][StockNext]_vars

InitSync == BatchInit /\ ParseIdle /\ CombineIdle /\ PriceIdle /\ DiffIdle /\ GateIdle /\ PushIdle /\ JoinIdle /\ WritesIdle /\ RewriteIdle /\ StockIdle /\ SyncIdle /\ DescIdle

SpecSync == InitSync /\ [][SyncNext]_vars

InitDesc == BatchInit /\ ParseIdle /\ CombineIdle /\ PriceIdle /\ DiffIdle /\ GateIdle /\ PushIdle /\ JoinIdle /\ WritesIdle /\ RewriteIdle /\ StockIdle /\ SyncIdle /\ DescIdle

SpecDesc == InitDesc /\ [][DescNext]_vars

====
